---- MODULE Spec2Model ----
(***************************************************************************)
(* Worship Aid Generator: the season resolver, the music consolidator,     *)
(* the editor's season change and the entry paths that call the overflow   *)
(* detector and the two layout engines.                                    *)
(*                                                                         *)
(* JavaScript values are modelled as strings: a JavaScript string is the   *)
(* TLA+ string itself, and the values that are not strings are the         *)
(* bracketed tokens below, so that any two values can be compared.         *)
(***************************************************************************)
EXTENDS Integers, Sequences, FiniteSets, TLC

VARIABLES
  recs,         \* heap of record objects (WeeklyRecord top level), by reference
  sss,          \* heap of seasonalSettings objects, by reference
  heap0,        \* the two heaps as they were when the input was received
  results,      \* references returned by the successive applySeasonDefaults calls
  resultSnaps,  \* each returned record, deep-copied at the moment it was returned
  lookup,       \* <<>> or <<season, bundle>>: the last getSeasonDefaults call
  musicData,    \* the three per-Mass music blocks of a record
  musicItems,   \* <<>> or <<call, items>>: the last formatMusicSlot call
  pdfLines,     \* <<>> or <<call, lines>>: what musicLine drew for a slot
  htmlOut,      \* <<>> or <<call, html>>: what renderMusicSection returned
  form,         \* the editor's form elements
  pending,      \* season-defaults fetches in flight, each an onSeasonChange awaiting
  userSet,      \* per seasonal field, <<>> or <<the value the user last entered by
                \* hand, the number of season changes made before that edit>>
  built,        \* <<>> or <<b>>: the last record built by buildData, with userSet
                \* and the number of season changes at that moment
  applied,      \* the seasons whose defaults onSeasonChange has applied, in order
  edits,        \* number of manual edits so far
  changes,      \* number of season changes so far
  calls,        \* log of the calls an entry path made: [fn, arg, ret], arg and
                \* ret being record references (ret 0: no record returned)
  path,         \* the entry path that served the request, "" before it ran
  estArgs,      \* <<>> or <<text, charsPerLine>>: the arguments of estimateLines
  estimate,     \* <<>> or <<n>>: what estimateLines returned for them
  ovRecord,     \* <<>> or <<record>>: the record handed to detectOverflows
  findings,     \* what the successive detectOverflows calls on the record returned
  drafts,       \* the drafts namespace of the store: per id, <<>> or <<draft>>
  settings,     \* the saved parish settings: <<>> or <<settings>>
  sessions,     \* the users that hold a session token
  response,     \* <<>> or <<r>>: the last request with the answer it got
  requests,     \* number of requests served so far
  engineData,   \* <<>> or <<the record's fields the resolver passes through>>
  printed,      \* <<>> or <<the sections the PDF engine laid out>>
  previewed,    \* <<>> or <<the sections the HTML engine laid out>>
  users,        \* the users namespace of the store: per id, <<>> or <<user>>
  kvSessions,   \* the sessions map stored under '_all': token -> userId
  inflight,     \* per caller, <<>> or <<the createSession or destroySession
                \* call it is in, with the sessions map the call loaded>>
  tokenLog      \* the tokens issued and returned so far, and those a
                \* destroy, a user deletion or a same-role login has ended

seasonVars == <<recs, sss, heap0, results, resultSnaps, lookup>>
musicVars  == <<musicData, musicItems, pdfLines, htmlOut>>
editorVars == <<form, pending, userSet, built, applied, edits, changes>>
entryVars  == <<calls, path>>
linesVars  == <<estArgs, estimate, ovRecord, findings>>
serverVars == <<drafts, settings, sessions, response, requests>>
engineVars == <<engineData, printed, previewed>>
accountVars == <<users, kvSessions, inflight, tokenLog>>
laterVars  == <<serverVars, engineVars, accountVars>>
restVars   == <<linesVars, laterVars>>
vars == <<recs, sss, heap0, results, resultSnaps, lookup,
          musicData, musicItems, pdfLines, htmlOut,
          form, pending, userSet, built, applied, edits, changes, calls, path,
          estArgs, estimate, ovRecord, findings,
          drafts, settings, sessions, response, requests,
          engineData, printed, previewed,
          users, kvSessions, inflight, tokenLog>>

---------------------------------------------------------------------------
(* JavaScript values *)

Undef   == "<undefined>"
JsTrue  == "<true>"
JsFalse == "<false>"

\* !v is false
Truthy(v) == v \notin {Undef, "", JsFalse}

\* a || b
Or(a, b) == IF Truthy(a) THEN a ELSE b

\* !!v, as a JavaScript boolean
ToBool(v) == IF Truthy(v) THEN JsTrue ELSE JsFalse

---------------------------------------------------------------------------
(* Season rule table *)

SEASONS == <<"ordinary", "advent", "christmas", "lent", "easter">>

SeasonSet == {SEASONS[i] : i \in 1..Len(SEASONS)}

MassOfStTheresa == "Mass of St. Theresa"

SEASON_RULES ==
  [ordinary |->
     [gloria |-> JsTrue, creedType |-> "nicene", entranceType |-> "processional",
      holyHolySetting |-> MassOfStTheresa, mysteryOfFaithSetting |-> MassOfStTheresa,
      lambOfGodSetting |-> MassOfStTheresa, penitentialAct |-> "confiteor",
      childrenLiturgyDefault |-> "optional", childrenLiturgyMassTime |-> Undef,
      gospelAcclamationType |-> "alleluia",
      includePostlude |-> JsTrue, adventWreath |-> JsFalse],
   advent |->
     [gloria |-> JsFalse, creedType |-> "apostles", entranceType |-> "antiphon",
      holyHolySetting |-> MassOfStTheresa, mysteryOfFaithSetting |-> MassOfStTheresa,
      lambOfGodSetting |-> MassOfStTheresa, penitentialAct |-> "confiteor",
      childrenLiturgyDefault |-> "no", childrenLiturgyMassTime |-> Undef,
      gospelAcclamationType |-> "alleluia",
      includePostlude |-> JsTrue, adventWreath |-> JsTrue],
   christmas |->
     [gloria |-> JsTrue, creedType |-> "nicene", entranceType |-> "processional",
      holyHolySetting |-> MassOfStTheresa, mysteryOfFaithSetting |-> MassOfStTheresa,
      lambOfGodSetting |-> MassOfStTheresa, penitentialAct |-> "confiteor",
      childrenLiturgyDefault |-> "no", childrenLiturgyMassTime |-> Undef,
      gospelAcclamationType |-> "alleluia",
      includePostlude |-> JsTrue, adventWreath |-> JsFalse],
   lent |->
     [gloria |-> JsFalse, creedType |-> "apostles", entranceType |-> "antiphon",
      holyHolySetting |-> "Vatican Edition XVIII",
      mysteryOfFaithSetting |-> "Vatican Edition XVIII",
      lambOfGodSetting |-> "Agnus Dei, Vatican Edition XVIII",
      penitentialAct |-> "confiteor",
      childrenLiturgyDefault |-> "yes", childrenLiturgyMassTime |-> "Sun 9:00 AM",
      gospelAcclamationType |-> "lenten",
      includePostlude |-> JsFalse, adventWreath |-> JsFalse],
   easter |->
     [gloria |-> JsTrue, creedType |-> "apostles", entranceType |-> "processional",
      holyHolySetting |-> MassOfStTheresa, mysteryOfFaithSetting |-> MassOfStTheresa,
      lambOfGodSetting |-> MassOfStTheresa, penitentialAct |-> "confiteor",
      childrenLiturgyDefault |-> "optional", childrenLiturgyMassTime |-> Undef,
      gospelAcclamationType |-> "alleluia",
      includePostlude |-> JsTrue, adventWreath |-> JsFalse]]

\* The names every object literal inherits from Object.prototype: a property
\* read SEASON_RULES[name] finds them although the literal does not define them.
ObjectPrototypeKeys ==
  {"constructor", "toString", "valueOf", "hasOwnProperty", "isPrototypeOf",
   "propertyIsEnumerable", "toLocaleString", "__proto__"}

\* What reading a season-bundle property off such an inherited member yields:
\* undefined for every one of the bundle's fields.
InheritedMember ==
  [gloria |-> Undef, creedType |-> Undef, entranceType |-> Undef,
   holyHolySetting |-> Undef, mysteryOfFaithSetting |-> Undef,
   lambOfGodSetting |-> Undef, penitentialAct |-> Undef,
   childrenLiturgyDefault |-> Undef, childrenLiturgyMassTime |-> Undef,
   gospelAcclamationType |-> Undef,
   includePostlude |-> Undef, adventWreath |-> Undef]

\* SEASON_RULES[season]: <<>> when the read yields undefined, else <<value>>
SeasonRulesGet(season) ==
  IF season \in DOMAIN SEASON_RULES THEN <<SEASON_RULES[season]>>
  ELSE IF season \in ObjectPrototypeKeys THEN <<InheritedMember>>
  ELSE <<>>

getSeasonDefaults(season) ==
  LET found == SeasonRulesGet(season)
  IN  IF found # <<>> THEN found[1] ELSE SEASON_RULES.ordinary

---------------------------------------------------------------------------
(* Season resolver: applySeasonDefaults on a heap of objects *)

\* A record object without any of the modelled fields
EmptyRec ==
  [liturgicalSeason |-> Undef, gloria |-> Undef, creedType |-> Undef,
   entranceType |-> Undef, seasonalSettings |-> 0]

\* {} as a seasonalSettings object: every field reads undefined
EmptySs ==
  [gloria |-> Undef, creedType |-> Undef, entranceType |-> Undef,
   holyHolySetting |-> Undef, mysteryOfFaithSetting |-> Undef,
   lambOfGodSetting |-> Undef, penitentialAct |-> Undef,
   includePostlude |-> Undef, adventWreath |-> Undef,
   lentenAcclamation |-> Undef]

\* if (merged.gloria === undefined) merged.gloria = defaults.gloria
FillGloria(m, defaults) ==
  IF m.gloria = Undef THEN [m EXCEPT !.gloria = defaults.gloria] ELSE m

FillCreedType_Clobber(m, defaults) ==
  [m EXCEPT !.creedType = defaults.creedType]

\* if (!merged.creedType) merged.creedType = defaults.creedType
FillCreedType(m, defaults) ==
  IF ~Truthy(m.creedType) THEN [m EXCEPT !.creedType = defaults.creedType] ELSE m

\* if (!merged.entranceType) merged.entranceType = defaults.entranceType
FillEntranceType(m, defaults) ==
  IF ~Truthy(m.entranceType)
  THEN [m EXCEPT !.entranceType = defaults.entranceType] ELSE m

FillHolyHoly(ss, defaults) ==
  IF ~Truthy(ss.holyHolySetting)
  THEN [ss EXCEPT !.holyHolySetting = defaults.holyHolySetting] ELSE ss

FillMysteryOfFaith_FromRecord(ss, defaults) ==
  IF ~Truthy(ss.mysteryOfFaithSetting)
  THEN [ss EXCEPT !.mysteryOfFaithSetting = ss.lambOfGodSetting] ELSE ss

FillMysteryOfFaith(ss, defaults) ==
  IF ~Truthy(ss.mysteryOfFaithSetting)
  THEN [ss EXCEPT !.mysteryOfFaithSetting = defaults.mysteryOfFaithSetting] ELSE ss

FillLambOfGod(ss, defaults) ==
  IF ~Truthy(ss.lambOfGodSetting)
  THEN [ss EXCEPT !.lambOfGodSetting = defaults.lambOfGodSetting] ELSE ss

FillPenitentialAct(ss, defaults) ==
  IF ~Truthy(ss.penitentialAct)
  THEN [ss EXCEPT !.penitentialAct = defaults.penitentialAct] ELSE ss

FillIncludePostlude(ss, defaults) ==
  IF ss.includePostlude = Undef
  THEN [ss EXCEPT !.includePostlude = defaults.includePostlude] ELSE ss

FillAdventWreath(ss, defaults) ==
  IF ss.adventWreath = Undef
  THEN [ss EXCEPT !.adventWreath = defaults.adventWreath] ELSE ss

\* The six assignments into merged.seasonalSettings, in the code's order
FillSeasonalSettings(ss, defaults) ==
  FillAdventWreath(
    FillIncludePostlude(
      FillPenitentialAct(
        FillLambOfGod(
          FillMysteryOfFaith(
            FillHolyHoly(ss, defaults), defaults), defaults), defaults), defaults),
    defaults)

\* applySeasonDefaults(data) on heap h = [recs, sss]; data is a reference into
\* h.recs.  Returns the heap after the call and the reference returned (ret).
\* merged = { ...data } is a new record object whose seasonalSettings is the
\* same reference as data's; only a missing seasonalSettings gets a new object.
applySeasonDefaults(h, data) ==
  IF ~Truthy(h.recs[data].liturgicalSeason)
  THEN [recs |-> h.recs, sss |-> h.sss, ret |-> data]
  ELSE
    LET defaults == getSeasonDefaults(h.recs[data].liturgicalSeason)
        merged   == FillEntranceType(
                      FillCreedType(
                        FillGloria(h.recs[data], defaults), defaults), defaults)
        fresh    == merged.seasonalSettings = 0
        sss1     == IF fresh THEN Append(h.sss, EmptySs) ELSE h.sss
        sid      == IF fresh THEN Len(sss1) ELSE merged.seasonalSettings
    IN  [recs |-> Append(h.recs, [merged EXCEPT !.seasonalSettings = sid]),
         sss  |-> [sss1 EXCEPT ![sid] = FillSeasonalSettings(sss1[sid], defaults)],
         ret  |-> Len(h.recs) + 1]

\* A record with its seasonalSettings object inlined: the record field for
\* field, as a deep comparison sees it (<<>>: no seasonalSettings object).
DeepValue(h, ref) ==
  [top |-> [h.recs[ref] EXCEPT !.seasonalSettings = 0],
   ss  |-> IF h.recs[ref].seasonalSettings = 0 THEN <<>>
           ELSE <<h.sss[h.recs[ref].seasonalSettings]>>]

Heap == [recs |-> recs, sss |-> sss]

---------------------------------------------------------------------------
(* Input records *)

\* How many of a raw record's seasonal fields carry an explicit value
MaxExplicit == 2

\* How many times in a row a record is resolved
MaxResolves == 2

SeasonInputs == SeasonSet \cup {Undef, "", "pentecost", "constructor", "toString"}

TopFields == {"gloria", "creedType", "entranceType"}

SsFields == DOMAIN EmptySs

\* A field of the raw record: <<"top", name>> or <<"ss", name>>
FieldKeys == ({"top"} \X TopFields) \cup ({"ss"} \X SsFields)

\* The explicit values a client can send for a field, by field name
ExplicitValues(f) ==
  CASE f \in {"gloria", "includePostlude", "adventWreath"} -> {JsTrue, JsFalse}
    [] f = "creedType"         -> {"", "nicene", "apostles"}
    [] f = "entranceType"      -> {"", "processional", "antiphon"}
    [] f = "penitentialAct"    -> {"", "confiteor", "kyrie_only"}
    [] f = "lentenAcclamation" -> {"standard", "alternate"}
    [] OTHER                   -> {"", "Missa de Angelis"}

AllExplicit == UNION {ExplicitValues(f) : f \in TopFields \cup SsFields}

\* The sets of fields a raw record sets explicitly
ExplicitSets == {P \in SUBSET FieldKeys : Cardinality(P) <= MaxExplicit}

\* The choices of explicit values for the fields of P
Assignments(P) ==
  {a \in [P -> AllExplicit] : \A k \in P : a[k] \in ExplicitValues(k[2])}

\* The raw record with season tag `season` and explicit values a (over P),
\* with or without a seasonalSettings object, as the heaps holding it at
\* reference 1
RawHeap(season, hasSs, P, a) ==
  [recs |-> <<[f \in DOMAIN EmptyRec |->
                 CASE f = "liturgicalSeason" -> season
                   [] f = "seasonalSettings" -> IF hasSs THEN 1 ELSE 0
                   [] OTHER -> IF <<"top", f>> \in P THEN a[<<"top", f>>] ELSE Undef]>>,
   sss  |-> IF hasSs
            THEN <<[f \in SsFields |->
                      IF <<"ss", f>> \in P THEN a[<<"ss", f>>] ELSE Undef]>>
            ELSE <<>>]

\* The heaps hold a raw record a client can send: a record without a
\* seasonalSettings object carries explicit values at its top level only
RawInput(h) ==
  \E season \in SeasonInputs, hasSs \in BOOLEAN :
    \E P \in ExplicitSets :
      /\ hasSs \/ P \subseteq ({"top"} \X TopFields)
      /\ \E a \in Assignments(P) : h = RawHeap(season, hasSs, P, a)

---------------------------------------------------------------------------
(* Specification of the season resolver *)

MusicIdle ==
  /\ musicData = <<>> /\ musicItems = <<>> /\ pdfLines = <<>> /\ htmlOut = <<>>

EditorIdle ==
  /\ form = <<>> /\ pending = <<>> /\ userSet = <<>> /\ built = <<>>
  /\ applied = <<>> /\ edits = 0 /\ changes = 0

EntryIdle == calls = <<>> /\ path = ""

LinesIdle ==
  /\ estArgs = <<>> /\ estimate = <<>> /\ ovRecord = <<>> /\ findings = <<>>

ServerIdle ==
  /\ drafts = <<>> /\ settings = <<>> /\ sessions = {} /\ response = <<>>
  /\ requests = 0

EngineIdle == engineData = <<>> /\ printed = <<>> /\ previewed = <<>>

AccountIdle ==
  /\ users = <<>> /\ kvSessions = <<>> /\ inflight = <<>> /\ tokenLog = <<>>

LaterIdle == ServerIdle /\ EngineIdle /\ AccountIdle

RestIdle == LinesIdle /\ LaterIdle

SeasonInit ==
  /\ RawInput(heap0)
  /\ recs = heap0.recs
  /\ sss = heap0.sss
  /\ results = <<>>
  /\ resultSnaps = <<>>
  /\ lookup = <<>>
  /\ MusicIdle /\ EditorIdle /\ EntryIdle /\ RestIdle

\* A caller resolves the raw record, then resolves what it got back
Resolve ==
  /\ Len(results) < MaxResolves
  /\ LET arg == IF results = <<>> THEN 1 ELSE results[Len(results)]
         out == applySeasonDefaults(Heap, arg)
     IN  /\ recs' = out.recs
         /\ sss' = out.sss
         /\ results' = Append(results, out.ret)
         /\ resultSnaps' = Append(resultSnaps, DeepValue(out, out.ret))
  /\ UNCHANGED <<heap0, lookup, musicVars, editorVars, entryVars, restVars>>

\* GET /api/season-defaults/:season, or any direct getSeasonDefaults(season),
\* for the season tag the record carries
Lookup ==
  /\ lookup = <<>>
  /\ lookup' = <<recs[1].liturgicalSeason, getSeasonDefaults(recs[1].liturgicalSeason)>>
  /\ UNCHANGED <<recs, sss, heap0, results, resultSnaps,
                 musicVars, editorVars, entryVars, restVars>>

SeasonNext == Resolve \/ Lookup

SpecSeason == SeasonInit /\ [][SeasonNext]_vars

---------------------------------------------------------------------------
(* Claims about the season rule table and the resolver (SpecSeason) *)

\* The value a deep-copied record carries at a field key
ValueAt(deep, k) ==
  IF k[1] = "top" THEN deep.top[k[2]]
  ELSE IF deep.ss = <<>> THEN Undef ELSE deep.ss[1][k[2]]

RawValue(k) == ValueAt(DeepValue(heap0, 1), k)

\* The fields the season defaults cover, where the resolver reads and writes them
CoveredKeys ==
  {<<"top", "gloria">>, <<"top", "creedType">>, <<"top", "entranceType">>,
   <<"ss", "holyHolySetting">>, <<"ss", "mysteryOfFaithSetting">>,
   <<"ss", "lambOfGodSetting">>, <<"ss", "penitentialAct">>,
   <<"ss", "includePostlude">>, <<"ss", "adventWreath">>}

BooleanKeys ==
  {<<"top", "gloria">>, <<"ss", "includePostlude">>, <<"ss", "adventWreath">>}

\* C1: applySeasonDefaults is idempotent: resolving a resolved record returns
\* a record equal, field for field (its seasonalSettings object included), to
\* the record the first resolution returned.
C1_Idempotent ==
  \A i \in 2..Len(resultSnaps) : resultSnaps[i] = resultSnaps[i - 1]

\* A record with a season tag was resolved twice, and the first resolution
\* filled in at least one default.
C1_Witness ==
  /\ Len(resultSnaps) >= 2
  /\ Truthy(heap0.recs[1].liturgicalSeason)
  /\ resultSnaps[1] # DeepValue(heap0, 1)

\* C2 (as claimed): every covered field that the input carries a value for,
\* an explicit false or an empty string included, has that value in the output.
C2_NeverOverwritesExplicit ==
  \A i \in 1..Len(resultSnaps) : \A k \in CoveredKeys \cup {<<"ss", "gloria">>} :
    RawValue(k) # Undef => ValueAt(resultSnaps[i], k) = RawValue(k)

\* C2 (amended): a boolean field (gloria, includePostlude, adventWreath) keeps
\* any value that is not undefined, an explicit false included; a string
\* field keeps any non-empty value; an empty string counts as unset and is
\* replaced by the season's default.  The seasonalSettings.gloria the input
\* carries is never touched.
C2_KeepsSetValues ==
  \A i \in 1..Len(resultSnaps) :
    /\ \A k \in BooleanKeys \cup {<<"ss", "gloria">>} :
         RawValue(k) # Undef => ValueAt(resultSnaps[i], k) = RawValue(k)
    /\ \A k \in CoveredKeys \ BooleanKeys :
         /\ Truthy(RawValue(k)) => ValueAt(resultSnaps[i], k) = RawValue(k)
         /\ (RawValue(k) = "" /\ Truthy(heap0.recs[1].liturgicalSeason)) =>
              ValueAt(resultSnaps[i], k) =
                getSeasonDefaults(heap0.recs[1].liturgicalSeason)[k[2]]

\* A Lent record that carries gloria = true and creedType = 'nicene' against
\* the season's defaults has been resolved.
C2_Witness ==
  /\ results # <<>>
  /\ heap0.recs[1].liturgicalSeason = "lent"
  /\ RawValue(<<"top", "gloria">>) = JsTrue
  /\ RawValue(<<"top", "creedType">>) = "nicene"

\* C3: applySeasonDefaults does not mutate its input: the input record and
\* its seasonalSettings object are after the call what they were before it.
C3_InputNotMutated ==
  results # <<>> => DeepValue(Heap, 1) = DeepValue(heap0, 1)

BundleFields == DOMAIN InheritedMember \ {"childrenLiturgyMassTime"}

\* C4: getSeasonDefaults is total: a season tag gets its own bundle, fully
\* populated, and every other input gets the 'ordinary' bundle.
C4_TotalWithFallback ==
  lookup # <<>> =>
    /\ \A f \in BundleFields : lookup[2][f] # Undef
    /\ lookup[1] \in SeasonSet => lookup[2] = SEASON_RULES[lookup[1]]
    /\ lookup[1] \notin SeasonSet => lookup[2] = SEASON_RULES.ordinary

\* The raw record sets none of the seasonal fields
NoOverrides == \A k \in FieldKeys : RawValue(k) = Undef

\* C5: a Lent record without overrides resolves to gloria = false,
\* creedType = 'apostles', entranceType = 'antiphon', includePostlude = false
\* and adventWreath = false in the seasonalSettings block of the resolved
\* record, which is where the overflow detector and both layout engines read.
C5_LentResolvedSettings ==
  (results # <<>> /\ heap0.recs[1].liturgicalSeason = "lent" /\ NoOverrides) =>
    LET ss == sss[recs[results[1]].seasonalSettings]
    IN  /\ ss.gloria = JsFalse
        /\ ss.creedType = "apostles"
        /\ ss.entranceType = "antiphon"
        /\ ss.includePostlude = JsFalse
        /\ ss.adventWreath = JsFalse


---------------------------------------------------------------------------
(* Re-resolution after a season change: a caller resolves a record,        *)
(* changes the season tag of the record it got back, and resolves it again *)

ReseasonInit ==
  /\ SeasonInit
  /\ heap0.recs[1].liturgicalSeason \in SeasonSet

\* The caller sets another season tag on the resolved record it holds
ChangeSeason ==
  /\ Len(results) = 1
  /\ recs[results[1]].liturgicalSeason = heap0.recs[1].liturgicalSeason
  /\ \E s2 \in SeasonSet \ {heap0.recs[1].liturgicalSeason} :
       recs' = [recs EXCEPT ![results[1]].liturgicalSeason = s2]
  /\ UNCHANGED <<sss, heap0, results, resultSnaps, lookup,
                 musicVars, editorVars, entryVars, restVars>>

ReseasonNext == Resolve \/ ChangeSeason

SpecReseason == ReseasonInit /\ [][ReseasonNext]_vars

\* The record was resolved, given another season tag and resolved again
Reseasoned ==
  /\ Len(resultSnaps) = 2
  /\ resultSnaps[2].top.liturgicalSeason # heap0.recs[1].liturgicalSeason

\* C26: after a record resolved under one season is given another season
\* tag and resolved again, every covered field the raw record did not set
\* has the default of the new season
C26_ReresolvedToNewSeason ==
  Reseasoned =>
    \A k \in CoveredKeys :
      RawValue(k) = Undef =>
        ValueAt(resultSnaps[2], k) =
          getSeasonDefaults(resultSnaps[2].top.liturgicalSeason)[k[2]]

---------------------------------------------------------------------------
(* Music formatter.  Its strings are sequences of characters, since the    *)
(* formatter builds keys by concatenation, rewrites the Mass times with a  *)
(* regular expression and escapes HTML; the value undefined is NoValue.    *)

NoValue == <<"<undefined>">>

\* !v is false for a string value
TruthyStr(v) == v \notin {NoValue, <<>>}

\* a || b
OrStr(a, b) == IF TruthyStr(a) THEN a ELSE b

RECURSIVE Join(_, _)
\* parts.join(sep)
Join(parts, sep) ==
  IF parts = <<>> THEN <<>>
  ELSE IF Len(parts) = 1 THEN parts[1]
  ELSE parts[1] \o sep \o Join(Tail(parts), sep)

MASS_TIMES ==
  << <<"S", "a", "t", " ", "5", ":", "0", "0", " ", "P", "M">>,
     <<"S", "u", "n", " ", "9", ":", "0", "0", " ", "A", "M">>,
     <<"S", "u", "n", " ", "1", "1", ":", "0", "0", " ", "A", "M">> >>

MASS_TIME_KEYS == <<"musicSat5pm", "musicSun9am", "musicSun11am">>

Digits == {"0", "1", "2", "3", "4", "5", "6", "7", "8", "9"}

\* \w
WordChars ==
  Digits \cup {"_"} \cup
  {"a", "b", "c", "d", "e", "f", "g", "h", "i", "j", "k", "l", "m",
   "n", "o", "p", "q", "r", "s", "t", "u", "v", "w", "x", "y", "z",
   "A", "B", "C", "D", "E", "F", "G", "H", "I", "J", "K", "L", "M",
   "N", "O", "P", "Q", "R", "S", "T", "U", "V", "W", "X", "Y", "Z"}

\* \s
SpaceChars == {" ", "\t", "\n"}

\* The first position from i on whose character is not in class C (Len + 1
\* when every one is): where a greedy C+ starting at i stops.
RunEnd(t, i, C) ==
  CHOOSE k \in i..(Len(t) + 1) :
    /\ \A x \in i..(k - 1) : t[x] \in C
    /\ k = Len(t) + 1 \/ t[k] \notin C

\* Whether /(\w+)\s(\d+):00\s(AM|PM)/ matches t starting at position i
TimeMatchesAt(t, i) ==
  LET j == RunEnd(t, i, WordChars)
      k == RunEnd(t, j + 1, Digits)
  IN  /\ j > i
      /\ j <= Len(t) /\ t[j] \in SpaceChars
      /\ k > j + 1
      /\ k + 5 <= Len(t)
      /\ t[k] = ":" /\ t[k + 1] = "0" /\ t[k + 2] = "0"
      /\ t[k + 3] \in SpaceChars
      /\ t[k + 4] \in {"A", "P"} /\ t[k + 5] = "M"

\* t.replace(/(\w+)\s(\d+):00\s(AM|PM)/, '$1, $2 $3'): the leftmost match
\* is rewritten, a string without a match is returned as it is
ShortenTime(t) ==
  LET starts == {i \in 1..Len(t) : TimeMatchesAt(t, i)}
  IN  IF starts = {} THEN t
      ELSE
        LET i == CHOOSE x \in starts : \A y \in starts : x <= y
            j == RunEnd(t, i, WordChars)
            k == RunEnd(t, j + 1, Digits)
        IN  SubSeq(t, 1, i - 1) \o SubSeq(t, i, j - 1) \o <<",", " ">>
              \o SubSeq(t, j + 1, k - 1) \o <<" ">> \o SubSeq(t, k + 4, k + 5)
              \o SubSeq(t, k + 6, Len(t))

formatTimeLabel(times) ==
  Join([i \in 1..Len(times) |-> ShortenTime(times[i])], <<" ", "&", " ">>)

\* data[key] && data[key][field]: blocks are <<>> (absent) or <<object>>
BlockField(data, key, field) ==
  IF data[key] = <<>> THEN NoValue
  ELSE IF field \in DOMAIN data[key][1] THEN data[key][1][field]
  ELSE NoValue

\* The entry of Mass time i before the filter
EntryOf(data, i, titleField, composerField) ==
  [time     |-> MASS_TIMES[i],
   title    |-> OrStr(BlockField(data, MASS_TIME_KEYS[i], titleField), <<>>),
   composer |-> OrStr(BlockField(data, MASS_TIME_KEYS[i], composerField), <<>>)]

Entries_Unfiltered(data, titleField, composerField) ==
  [i \in 1..Len(MASS_TIME_KEYS) |-> EntryOf(data, i, titleField, composerField)]

\* MASS_TIME_KEYS.map(...).filter(e => e.title)
Entries(data, titleField, composerField) ==
  SelectSeq([i \in 1..Len(MASS_TIME_KEYS) |->
               EntryOf(data, i, titleField, composerField)],
            LAMBDA e : TruthyStr(e.title))

\* `${entry.title}|||${entry.composer}`
GroupKey(entry) == entry.title \o <<"|", "|", "|">> \o entry.composer

RECURSIVE GroupEntries(_, _)
\* The Map of groups, in insertion order, after adding the entries to it
GroupEntries(entries, groups) ==
  IF entries = <<>> THEN groups
  ELSE
    LET e    == Head(entries)
        at   == {i \in 1..Len(groups) : groups[i].key = GroupKey(e)}
        next ==
          IF at = {}
          THEN Append(groups, [key |-> GroupKey(e), title |-> e.title,
                               composer |-> e.composer, times |-> <<e.time>>])
          ELSE LET i == CHOOSE x \in at : TRUE
               IN  [groups EXCEPT ![i].times = Append(@, e.time)]
    IN  GroupEntries(Tail(entries), next)

SingleGroup_ByEntries(entries, groupList) == Len(entries) = 1

\* groupList.length === 1
SingleGroup(entries, groupList) == Len(groupList) = 1

formatMusicSlot(data, titleField, composerField) ==
  LET entries   == Entries(data, titleField, composerField)
      groupList == GroupEntries(entries, <<>>)
  IN  IF Len(entries) = 0 THEN <<>>
      ELSE IF SingleGroup(entries, groupList)
      THEN <<[title |-> groupList[1].title, composer |-> groupList[1].composer,
              timeLabel |-> <<>>]>>
      ELSE [i \in 1..Len(groupList) |->
              [title |-> groupList[i].title, composer |-> groupList[i].composer,
               timeLabel |-> formatTimeLabel(groupList[i].times)]]

\* One character of escHtml / escapeHtml
EscChar(c) ==
  CASE c = "&"  -> <<"&", "a", "m", "p", ";">>
    [] c = "<"  -> <<"&", "l", "t", ";">>
    [] c = ">"  -> <<"&", "g", "t", ";">>
    [] c = "\"" -> <<"&", "q", "u", "o", "t", ";">>
    [] OTHER    -> <<c>>

RECURSIVE escHtml(_)
escHtml(str) ==
  IF ~TruthyStr(str) THEN <<>> ELSE EscChar(Head(str)) \o escHtml(Tail(str))

renderMusicLineText(item) ==
  item.title
    \o (IF TruthyStr(item.composer) THEN <<",", " ">> \o item.composer ELSE <<>>)
    \o (IF TruthyStr(item.timeLabel)
        THEN <<" ", "(">> \o item.timeLabel \o <<")">> ELSE <<>>)

renderMusicLineHtml(item) ==
  <<"<em>">> \o escHtml(item.title) \o <<"</em>">>
    \o (IF TruthyStr(item.composer)
        THEN <<",", " ">> \o escHtml(item.composer) ELSE <<>>)
    \o (IF TruthyStr(item.timeLabel)
        THEN <<" ", "<span class=mass-time-label>", "(">>
               \o escHtml(item.timeLabel) \o <<")", "</span>">>
        ELSE <<>>)

\* The print engine's musicLine: the text lines it draws for a slot
musicLine(data, titleField, composerField, label) ==
  LET items == formatMusicSlot(data, titleField, composerField)
  IN  [i \in 1..Len(items) |->
         label \o <<" ", "<U+2014>", " ">> \o renderMusicLineText(items[i])]

\* The preview engine's renderMusicSection: the markup it returns for a slot
renderMusicSection(data, titleField, composerField, label) ==
  LET items == formatMusicSlot(data, titleField, composerField)
  IN  IF Len(items) = 0 THEN <<>>
      ELSE <<"<div class=music-entry>", "<span class=music-label>">>
             \o escHtml(label) \o <<" ", "&mdash;", " ", "</span>">>
             \o Join([i \in 1..Len(items) |-> renderMusicLineHtml(items[i])],
                     <<" ", "<span class=music-divider>", "/", "</span>", " ">>)
             \o <<"</div>">>

---------------------------------------------------------------------------
(* Specification of the music formatter and the engines' music lines *)

Ave     == <<"A", "v", "e">>
AveBars == <<"A", "v", "e", "|", "|", "|">>
Bach     == <<"B", "a", "c", "h">>
BarsBach == <<"|", "|", "|", "B", "a", "c", "h">>

\* What a music block can hold for the prelude's title and composer
TitleInputs    == {NoValue, <<>>, Ave, AveBars}
ComposerInputs == {NoValue, <<>>, Bach, BarsBach}

\* A music block: absent, or an object with the prelude's two fields
BlockInputs ==
  {<<>>} \cup
  {<<[organPrelude |-> t, organPreludeComposer |-> c]>> :
     t \in TitleInputs, c \in ComposerInputs}

\* The slots the engines render: title field, composer field, label
RenderedSlots ==
  {<<"organPrelude", "organPreludeComposer",
     <<"P", "r", "e", "l", "u", "d", "e">> >>,
   <<"offertoryAnthem", "offertoryAnthemComposer",
     <<"O", "f", "f", "e", "r", "t", "o", "r", "y", " ",
       "A", "n", "t", "h", "e", "m">> >>}

\* The title fields of the eight music slots of a music block
MusicSlotNames ==
  {"organPrelude", "processionalOrEntrance", "kyrieSetting", "offertoryAnthem",
   "communionHymn", "hymnOfThanksgiving", "organPostlude",
   "choralAnthemConcluding"}

\* A call with a field name that no music block has
UnknownSlot ==
  <<"recessional", "recessionalComposer",
    <<"R", "e", "c", "e", "s", "s", "i", "o", "n", "a", "l">> >>

\* The slots formatMusicSlot is called with
CalledSlots == RenderedSlots \cup {UnknownSlot}

SeasonIdle ==
  /\ recs = <<>> /\ sss = <<>> /\ heap0 = <<>> /\ results = <<>>
  /\ resultSnaps = <<>> /\ lookup = <<>>

MusicInit ==
  /\ musicData \in [musicSat5pm : BlockInputs, musicSun9am : BlockInputs,
                    musicSun11am : BlockInputs]
  /\ musicItems = <<>>
  /\ pdfLines = <<>>
  /\ htmlOut = <<>>
  /\ SeasonIdle /\ EditorIdle /\ EntryIdle /\ RestIdle

\* A direct call of formatMusicSlot for a slot: <<slot, items>> once it has
\* returned (the function has no throw statement, and reading a field of a
\* block never fails, so every call returns)
FormatMusicSlot ==
  /\ musicItems = <<>>
  /\ \E slot \in CalledSlots :
       musicItems' = <<slot, formatMusicSlot(musicData, slot[1], slot[2])>>
  /\ UNCHANGED <<musicData, pdfLines, htmlOut, seasonVars, editorVars, entryVars, restVars>>

\* The print engine draws a slot
MusicLine ==
  /\ pdfLines = <<>>
  /\ \E slot \in RenderedSlots :
       pdfLines' = <<slot, musicLine(musicData, slot[1], slot[2], slot[3])>>
  /\ UNCHANGED <<musicData, musicItems, htmlOut, seasonVars, editorVars, entryVars, restVars>>

\* The preview engine renders a slot
RenderMusicSection ==
  /\ htmlOut = <<>>
  /\ \E slot \in RenderedSlots :
       htmlOut' = <<slot, renderMusicSection(musicData, slot[1], slot[2], slot[3])>>
  /\ UNCHANGED <<musicData, musicItems, pdfLines, seasonVars, editorVars, entryVars, restVars>>

MusicNext == FormatMusicSlot \/ MusicLine \/ RenderMusicSection

SpecMusic == MusicInit /\ [][MusicNext]_vars

---------------------------------------------------------------------------
(* Claims about the music formatter (SpecMusic) *)

\* The Mass times whose block has a non-empty title for the slot
TitledTimes(slot) ==
  {i \in 1..Len(MASS_TIME_KEYS) :
     TruthyStr(BlockField(musicData, MASS_TIME_KEYS[i], slot[1]))}

\* The (title, composer) pair of Mass time i, a missing composer being ''
PairOf(slot, i) ==
  <<BlockField(musicData, MASS_TIME_KEYS[i], slot[1]),
    IF BlockField(musicData, MASS_TIME_KEYS[i], slot[2]) = NoValue THEN <<>>
    ELSE BlockField(musicData, MASS_TIME_KEYS[i], slot[2])>>

DistinctPairs(slot) == {PairOf(slot, i) : i \in TitledTimes(slot)}

\* C8: when the Mass times with a non-empty title all share one (title,
\* composer) pair, formatMusicSlot returns exactly one entry, with that
\* title and composer and an empty time label.
C8_Collapse ==
  (musicItems # <<>> /\ Cardinality(DistinctPairs(musicItems[1])) = 1) =>
    LET p == CHOOSE q \in DistinctPairs(musicItems[1]) : TRUE
    IN  musicItems[2] = <<[title |-> p[1], composer |-> p[2], timeLabel |-> <<>>]>>

\* formatMusicSlot ran on a slot where at least two Mass times carry the
\* same title and composer and no Mass time carries another.
C8_Witness ==
  /\ musicItems # <<>>
  /\ Cardinality(TitledTimes(musicItems[1])) >= 2
  /\ Cardinality(DistinctPairs(musicItems[1])) = 1

\* The qualifiers of the Mass times, in chronological order
SHORT_TIMES ==
  << <<"S", "a", "t", ",", " ", "5", " ", "P", "M">>,
     <<"S", "u", "n", ",", " ", "9", " ", "A", "M">>,
     <<"S", "u", "n", ",", " ", "1", "1", " ", "A", "M">> >>

\* The time label of pair p: its Mass times in chronological order, ' & ' between
LabelOfPair(slot, p) ==
  Join(SelectSeq([i \in 1..Len(MASS_TIME_KEYS) |->
                    IF i \in TitledTimes(slot) /\ PairOf(slot, i) = p
                    THEN SHORT_TIMES[i] ELSE <<>>],
                 LAMBDA x : x # <<>>),
       <<" ", "&", " ">>)

\* C9: when the titled Mass times carry more than one distinct (title,
\* composer) pair, formatMusicSlot returns exactly one entry per distinct
\* pair, and the entry's time label lists the Mass times of that pair and no
\* other, in chronological order, joined with ' & '.
C9_Split ==
  (musicItems # <<>> /\ Cardinality(DistinctPairs(musicItems[1])) > 1) =>
    /\ Len(musicItems[2]) = Cardinality(DistinctPairs(musicItems[1]))
    /\ \A p \in DistinctPairs(musicItems[1]) :
         \E i \in 1..Len(musicItems[2]) :
           musicItems[2][i] = [title |-> p[1], composer |-> p[2],
                               timeLabel |-> LabelOfPair(musicItems[1], p)]

\* C10: when no Mass time has a title for the slot (the blocks absent or the
\* titles blank), formatMusicSlot returns an empty list, the print engine
\* draws no line and the preview engine returns no markup for the slot.
C10_Emptiness ==
  /\ (musicItems # <<>> /\ TitledTimes(musicItems[1]) = {}) => musicItems[2] = <<>>
  /\ (pdfLines # <<>> /\ TitledTimes(pdfLines[1]) = {}) => pdfLines[2] = <<>>
  /\ (htmlOut # <<>> /\ TitledTimes(htmlOut[1]) = {}) => htmlOut[2] = <<>>

\* The formatter and both engines ran on the prelude of a record whose
\* three blocks are present and all have a blank prelude title.
C10_Witness ==
  /\ musicItems # <<>> /\ pdfLines # <<>> /\ htmlOut # <<>>
  /\ musicItems[1][1] = "organPrelude"
  /\ pdfLines[1][1] = "organPrelude"
  /\ htmlOut[1][1] = "organPrelude"
  /\ \A i \in 1..Len(MASS_TIME_KEYS) :
       /\ musicData[MASS_TIME_KEYS[i]] # <<>>
       /\ BlockField(musicData, MASS_TIME_KEYS[i], "organPrelude") = <<>>

\* C11: a call of the consolidator with a slot name that is not one of the
\* eight music slots is rejected: it does not return a result.
C11_UnknownSlotRejected ==
  (musicItems # <<>> /\ musicItems[1][1] \notin MusicSlotNames) =>
    Len(musicItems) < 2

---------------------------------------------------------------------------
(* The editor: the seasonal form controls, onSeasonChange and buildData *)

\* How many manual edits of seasonal fields the user makes
MaxEdits == 1

\* How many times the user changes the season
MaxSeasonChanges == 1

CheckboxIds == {"gloria", "includePostlude", "adventWreath"}

TextIds == {"holyHolySetting", "mysteryOfFaithSetting", "lambOfGodSetting"}

\* The option values of each <select>, the first one being selected on load
SelectOptions(id) ==
  CASE id = "liturgicalSeason"  -> SEASONS
    [] id = "creedType"         -> <<"nicene", "apostles">>
    [] id = "entranceType"      -> <<"processional", "antiphon">>
    [] id = "penitentialAct"    -> <<"confiteor", "kyrie_only">>
    [] id = "lentenAcclamation" -> <<"standard", "alternate">>

SelectIds ==
  {"liturgicalSeason", "creedType", "entranceType", "penitentialAct",
   "lentenAcclamation"}

OptionSet(id) == {SelectOptions(id)[i] : i \in 1..Len(SelectOptions(id))}

\* The fields onSeasonChange writes, which are the fields the user overrides
SeasonalIds ==
  {"gloria", "creedType", "entranceType", "holyHolySetting",
   "mysteryOfFaithSetting", "lambOfGodSetting", "penitentialAct",
   "includePostlude", "adventWreath"}

FormIds == CheckboxIds \cup TextIds \cup SelectIds

\* What the user can type into a text input of the section
AngelisPadded == " Missa de Angelis"

TextInputs == {"", "Missa de Angelis", AngelisPadded}

\* String.prototype.trim on the strings a form element can hold
Trim(s) == IF s = AngelisPadded THEN "Missa de Angelis" ELSE s

\* The form as the page loads it: unchecked boxes, empty text inputs and the
\* first option of every select
InitialForm ==
  [id \in FormIds |->
     CASE id \in CheckboxIds -> JsFalse
       [] id \in TextIds     -> ""
       [] OTHER              -> SelectOptions(id)[1]]

v(f, id) == Trim(f[id])

ch(f, id) == f[id]

\* el.value = val || '': a select whose options do not include the value
\* selects nothing and reads ''
sv(f, id, val) ==
  LET s == Or(val, "")
  IN  [f EXCEPT ![id] = IF id \in SelectIds /\ s \notin OptionSet(id) THEN "" ELSE s]

sc(f, id, val) == [f EXCEPT ![id] = ToBool(val)]

\* defaults.includePostlude !== false
NotFalse(val) == IF val = JsFalse THEN JsFalse ELSE JsTrue

\* A variant that writes a default only into a control the user left empty
ApplyDefaultsToForm_GapFill(f, defaults) ==
  [id \in FormIds |->
     IF id \in SeasonalIds /\ f[id] = InitialForm[id] /\ id \notin CheckboxIds
     THEN Or(defaults[id], "") ELSE f[id]]

\* The nine sc/sv statements of onSeasonChange, in the code's order
ApplyDefaultsToForm(f, defaults) ==
  sc(sc(sv(sv(sv(sv(sv(sv(sc(f,
    "gloria", defaults.gloria),
    "creedType", defaults.creedType),
    "entranceType", defaults.entranceType),
    "holyHolySetting", defaults.holyHolySetting),
    "mysteryOfFaithSetting", defaults.mysteryOfFaithSetting),
    "lambOfGodSetting", defaults.lambOfGodSetting),
    "penitentialAct", defaults.penitentialAct),
    "includePostlude", NotFalse(defaults.includePostlude)),
    "adventWreath", ToBool(defaults.adventWreath))

\* The season fields of the record buildData returns
buildData(f) ==
  [liturgicalSeason |-> v(f, "liturgicalSeason"),
   seasonalSettings |->
     [gloria                |-> ch(f, "gloria"),
      creedType             |-> v(f, "creedType"),
      entranceType          |-> v(f, "entranceType"),
      holyHolySetting       |-> v(f, "holyHolySetting"),
      mysteryOfFaithSetting |-> v(f, "mysteryOfFaithSetting"),
      lambOfGodSetting      |-> v(f, "lambOfGodSetting"),
      penitentialAct        |-> v(f, "penitentialAct"),
      includePostlude       |-> ch(f, "includePostlude"),
      adventWreath          |-> ch(f, "adventWreath"),
      lentenAcclamation     |-> v(f, "lentenAcclamation")]]

\* The value buildData reads from a control holding val
ReadBack(id, val) == IF id \in CheckboxIds THEN val ELSE Trim(val)

\* What the user can put into a seasonal control by hand
UserValues(id) ==
  CASE id \in CheckboxIds -> {JsTrue, JsFalse}
    [] id \in TextIds     -> TextInputs
    [] OTHER              -> OptionSet(id)

RemoveAt(q, i) == SubSeq(q, 1, i - 1) \o SubSeq(q, i + 1, Len(q))

EditorInit ==
  /\ form = InitialForm
  /\ pending = <<>>
  /\ userSet = [id \in SeasonalIds |-> <<>>]
  /\ built = <<>>
  /\ applied = <<>>
  /\ edits = 0
  /\ changes = 0
  /\ SeasonIdle /\ MusicIdle /\ EntryIdle /\ RestIdle

\* The user ticks, picks or types a new value in a seasonal control
UserEdit ==
  /\ edits < MaxEdits
  /\ \E id \in SeasonalIds : \E val \in UserValues(id) :
       /\ val # form[id]
       /\ form' = [form EXCEPT ![id] = val]
       /\ userSet' = [userSet EXCEPT ![id] = <<ReadBack(id, val), changes>>]
  /\ edits' = edits + 1
  /\ UNCHANGED <<pending, built, applied, changes, seasonVars, musicVars, entryVars, restVars>>

\* The user picks another season: the select's change event runs onSeasonChange
\* up to its fetch of /api/season-defaults/<season>
OnSeasonChange ==
  /\ changes < MaxSeasonChanges
  /\ \E season \in OptionSet("liturgicalSeason") :
       /\ season # form["liturgicalSeason"]
       /\ form' = [form EXCEPT !["liturgicalSeason"] = season]
       /\ pending' = Append(pending, v(form', "liturgicalSeason"))
  /\ changes' = changes + 1
  /\ UNCHANGED <<userSet, built, applied, edits, seasonVars, musicVars, entryVars, restVars>>

\* The response of GET /api/season-defaults/:season arrives and onSeasonChange
\* resumes; responses of overlapping requests arrive in any order
SeasonDefaultsArrive ==
  /\ \E i \in 1..Len(pending) :
       /\ form' = ApplyDefaultsToForm(form, getSeasonDefaults(pending[i]))
       /\ applied' = Append(applied, pending[i])
       /\ pending' = RemoveAt(pending, i)
  /\ UNCHANGED <<userSet, built, edits, changes, seasonVars, musicVars, entryVars, restVars>>

\* The request fails and the catch clause only logs the error
SeasonDefaultsFail ==
  /\ \E i \in 1..Len(pending) : pending' = RemoveAt(pending, i)
  /\ UNCHANGED <<form, userSet, built, applied, edits, changes,
                 seasonVars, musicVars, entryVars, restVars>>

\* Save, preview or export builds the record from the form
BuildData ==
  /\ built' = <<[record |-> buildData(form), userSet |-> userSet,
                 changes |-> changes]>>
  /\ built' # built
  /\ UNCHANGED <<form, pending, userSet, applied, edits, changes,
                 seasonVars, musicVars, entryVars, restVars>>

EditorNext ==
  \/ UserEdit
  \/ OnSeasonChange
  \/ SeasonDefaultsArrive
  \/ SeasonDefaultsFail
  \/ BuildData

SpecEditor == EditorInit /\ [][EditorNext]_vars

---------------------------------------------------------------------------
(* Claims about the editor (SpecEditor) *)

\* The fields of the built record that the user set by hand before the last
\* season change made before the build
OverriddenBeforeChange(b) ==
  {id \in SeasonalIds : b.userSet[id] # <<>> /\ b.userSet[id][2] < b.changes}

DefaultInForm(id, defaults) ==
  CASE id = "includePostlude" -> NotFalse(defaults[id])
    [] id \in CheckboxIds     -> ToBool(defaults[id])
    [] OTHER                  -> Or(defaults[id], "")

---------------------------------------------------------------------------
(* The entry paths: POST /api/validate, POST /api/preview,                 *)
(* POST /api/generate-pdf and the command line                             *)

\* The request record is reference 1 of the heap; st = [recs, sss, calls] is
\* the heap and the call log as a handler threads them through its calls.
Logged(st, fn, arg, ret) ==
  [st EXCEPT !.calls = Append(@, [fn |-> fn, arg |-> arg, ret |-> ret])]

LastRet(st) == st.calls[Len(st.calls)].ret

\* The element of a one-element set; {e(x) : x \in {arg}} computes arg once
TheOne(S) == CHOOSE x \in S : TRUE

\* A call of applySeasonDefaults(data) made by an engine
Resolved(st, data) ==
  TheOne({LET out == applySeasonDefaults([recs |-> s.recs, sss |-> s.sss], data)
          IN  Logged([s EXCEPT !.recs = out.recs, !.sss = out.sss],
                     "applySeasonDefaults", data, out.ret) : s \in {st}})

detectOverflows(st, data) == Logged(st, "detectOverflows", data, 0)

\* The schema accepts the five seasons only; the record's other required
\* fields (feastName, liturgicalDate) are taken as present and well formed.
validateInput(rec) == rec.liturgicalSeason \in SeasonSet

\* renderBookletHtml(data): resolves, detects overflows on the resolved
\* record d, then lays out the pages from d
renderBookletHtml(st, data) ==
  TheOne({Logged(detectOverflows(s1, LastRet(s1)),
                 "renderBookletHtml.pages", LastRet(s1), 0) :
          s1 \in {Resolved(st, data)}})

\* generatePdf(data): the generator's constructor resolves and detects
\* overflows on this.data, then generate() lays out the pages from this.data
generatePdf(st, data) ==
  TheOne({Logged(detectOverflows(s1, LastRet(s1)),
                 "WorshipAidPdfGenerator.generate", LastRet(s1), 0) :
          s1 \in {Resolved(st, data)}})

EntryState == [recs |-> recs, sss |-> sss, calls |-> calls]

\* The handler that served the request leaves the heap and the log as st
Served(name, st) ==
  /\ path' = name
  /\ \E s \in {st} :
       /\ recs' = s.recs
       /\ sss' = s.sss
       /\ calls' = s.calls
  /\ UNCHANGED <<heap0, results, resultSnaps, lookup, musicVars, editorVars,
                 restVars>>

EntryInit ==
  /\ RawInput(heap0)
  /\ recs = heap0.recs
  /\ sss = heap0.sss
  /\ results = <<>>
  /\ resultSnaps = <<>>
  /\ lookup = <<>>
  /\ calls = <<>>
  /\ path = ""
  /\ MusicIdle /\ EditorIdle /\ RestIdle

\* POST /api/validate
Validate ==
  /\ path = ""
  /\ Served("validate",
            detectOverflows(Logged(EntryState, "validateInput", 1, 0), 1))

\* POST /api/preview
Preview ==
  /\ path = ""
  /\ Served("preview", detectOverflows(renderBookletHtml(EntryState, 1), 1))

\* POST /api/generate-pdf: the approval gate (parish settings and the stored
\* draft's status) either answers 403 or lets the export run
GeneratePdf ==
  /\ path = ""
  /\ \E refused \in BOOLEAN :
       Served("generate-pdf",
              IF refused THEN EntryState ELSE generatePdf(EntryState, 1))

\* The command line: main() after the input file was read and parsed, with
\* or without --html
Cli ==
  /\ path = ""
  /\ \E generateHtml \in BOOLEAN :
     \E s0 \in {Logged(EntryState, "validateInput", 1, 0)} :
       IF ~validateInput(recs[1]) THEN Served("cli", s0)
       ELSE \E s1 \in {generatePdf(detectOverflows(s0, 1), 1)} :
              Served("cli", IF generateHtml THEN renderBookletHtml(s1, 1) ELSE s1)

EntryNext == Validate \/ Preview \/ GeneratePdf \/ Cli

SpecEntry == EntryInit /\ [][EntryNext]_vars

---------------------------------------------------------------------------
(* Claims about the entry paths (SpecEntry) *)

\* The calls that consume resolved seasonal fields
Consumers ==
  {"detectOverflows", "renderBookletHtml.pages", "WorshipAidPdfGenerator.generate"}

\* C7: on every entry path, detectOverflows and each layout engine are
\* applied only to a record that an earlier applySeasonDefaults call returned.
C7_ResolutionPrecedes ==
  \A i \in 1..Len(calls) :
    calls[i].fn \in Consumers =>
      \E j \in 1..(i - 1) :
        /\ calls[j].fn = "applySeasonDefaults"
        /\ calls[j].ret = calls[i].arg

---------------------------------------------------------------------------
(* The overflow detector: estimateLines and detectOverflows.  Texts are    *)
(* sequences of characters, as in the music formatter.                     *)

\* null, as a text field of a record can hold it
NullValue == <<"<null>">>

\* !text is false: the text is a non-empty string
TruthyText(t) == t # NoValue /\ t # NullValue /\ t # <<>>

Newline == "\n"

RECURSIVE SplitLines(_)
\* text.split('\n')
SplitLines(t) ==
  IF \A i \in 1..Len(t) : t[i] # Newline THEN <<t>>
  ELSE LET i == CHOOSE k \in 1..Len(t) :
                  t[k] = Newline /\ \A j \in 1..(k - 1) : t[j] # Newline
       IN  <<SubSeq(t, 1, i - 1)>> \o SplitLines(SubSeq(t, i + 1, Len(t)))

\* Math.ceil(a / b) for a >= 0 and b > 0
Ceil(a, b) == (a + b - 1) \div b

Max(a, b) == IF a >= b THEN a ELSE b

\* The default value of the charsPerLine parameter
DefaultCharsPerLine == 65

SegmentLines_NoFloor(line, charsPerLine) == Ceil(Len(line), charsPerLine)

\* Math.max(1, Math.ceil(line.length / charsPerLine))
SegmentLines(line, charsPerLine) == Max(1, Ceil(Len(line), charsPerLine))

RECURSIVE SumLines(_, _, _)
\* The reduce over the segments, from total
SumLines(segments, charsPerLine, total) ==
  IF segments = <<>> THEN total
  ELSE SumLines(Tail(segments), charsPerLine,
                total + SegmentLines(Head(segments), charsPerLine))

\* estimateLines(text, charsPerLine = 65); cpl is <<>> when the argument is
\* omitted and <<n>> when it is given
estimateLines(text, cpl) ==
  IF ~TruthyText(text) THEN 0
  ELSE SumLines(SplitLines(text),
                IF cpl = <<>> THEN DefaultCharsPerLine ELSE cpl[1], 0)

---------------------------------------------------------------------------
(* Specification of estimateLines *)

\* The longest text made of every combination of letters and line breaks
MaxTextLen == 4

\* n letters without a line break
Xs(n) == [i \in 1..n |-> "x"]

ShortTexts == UNION {[1..n -> {"x", Newline}] : n \in 0..MaxTextLen}

\* One full line, one letter more, two full lines, and 200 letters
LongTexts == {Xs(65), Xs(66), Xs(130), Xs(200)}

TextInputs12 == ShortTexts \cup LongTexts \cup {NoValue, NullValue}

\* charsPerLine: omitted, or a positive number
CharsPerLineInputs == {<<>>, <<1>>, <<2>>, <<3>>, <<65>>}

LinesInit ==
  /\ estArgs \in TextInputs12 \X CharsPerLineInputs
  /\ estimate = <<>>
  /\ ovRecord = <<>>
  /\ findings = <<>>
  /\ SeasonIdle /\ MusicIdle /\ EditorIdle /\ EntryIdle /\ LaterIdle

EstimateLines ==
  /\ estimate = <<>>
  /\ estimate' = <<estimateLines(estArgs[1], estArgs[2])>>
  /\ UNCHANGED <<estArgs, ovRecord, findings,
                 seasonVars, musicVars, editorVars, entryVars, laterVars>>

LinesNext == EstimateLines

SpecLines == LinesInit /\ [][LinesNext]_vars

---------------------------------------------------------------------------
(* Claims about estimateLines (SpecLines) *)

\* The positions of the line breaks of t, with the two ends of the text
Breaks(t) == {0, Len(t) + 1} \cup {i \in 1..Len(t) : t[i] = Newline}

\* The length of the segment that starts after break b
SegmentAfter(t, b) ==
  (CHOOSE e \in Breaks(t) : e > b /\ \A x \in Breaks(t) : x > b => x >= e) - b - 1

RECURSIVE SumOver(_, _, _)
\* Sum over the segments starting after the breaks B of max(1, ceil(len / n))
SumOver(t, B, n) ==
  IF B = {} THEN 0
  ELSE LET b == CHOOSE x \in B : TRUE
           len == SegmentAfter(t, b)
       IN  (IF len = 0 THEN 1 ELSE Ceil(len, n)) + SumOver(t, B \ {b}, n)

\* C12: estimateLines returns 0 for an empty or absent text, and otherwise
\* the sum over the newline-separated segments of max(1, ceil(length /
\* charsPerLine)), charsPerLine being 65 when omitted; 'x' gives 1 and 200
\* letters give 4.
C12_EstimateLines ==
  estimate # <<>> =>
    LET t == estArgs[1]
        n == IF estArgs[2] = <<>> THEN 65 ELSE estArgs[2][1]
    IN  /\ t \in {<<>>, NoValue, NullValue} => estimate[1] = 0
        /\ t \notin {<<>>, NoValue, NullValue} =>
             estimate[1] = SumOver(t, Breaks(t) \ {Len(t) + 1}, n)
        /\ (t = <<"x">>) => estimate[1] = 1
        /\ (t = Xs(200) /\ estArgs[2] = <<>>) => estimate[1] = 4

\* estimateLines returned 4 for 200 letters, and 3 for a text with an empty
\* segment between two letters
C12_Witness ==
  /\ estimate # <<>>
  /\ \/ estArgs = <<Xs(200), <<>> >> /\ estimate = <<4>>
     \/ estArgs[1] = <<"x", Newline, Newline, "x">> /\ estimate = <<3>>

---------------------------------------------------------------------------
(* detectOverflows.  A record is [readings, seasonalSettings], each block  *)
(* <<>> when absent and <<object>> otherwise; creedType is a string value  *)
(* as in the season resolver, the texts are character sequences.           *)

PAGE_CAPACITIES ==
  (3 :> [maxLines |-> 85, name |-> "Liturgy of the Word"]) @@
  (4 :> [maxLines |-> 75, name |-> "Gospel & Creed"])

\* A number where a text is expected, as a JSON body can carry it
NumberValue == <<"<number>">>

\* text.split is not a function: a truthy value that is not a string
SplitFails(text) == text = NumberValue

\* const r = data.readings || {}; r[field]
ReadingField(data, field) ==
  IF data.readings = <<>> THEN NoValue ELSE data.readings[1][field]

\* r.noSecondReading
NoSecondReading(data) ==
  IF data.readings = <<>> THEN FALSE
  ELSE Truthy(data.readings[1].noSecondReading)

\* data.seasonalSettings?.creedType
CreedTypeOf(data) ==
  IF data.seasonalSettings = <<>> THEN Undef
  ELSE data.seasonalSettings[1].creedType

\* The estimateLines calls of detectOverflows, in the order they are made
TextsRead(data) ==
  <<ReadingField(data, "firstReadingText"), ReadingField(data, "psalmVerses"),
    ReadingField(data, "psalmRefrain")>>
  \o (IF NoSecondReading(data) THEN <<>>
      ELSE <<ReadingField(data, "secondReadingText")>>)
  \o <<ReadingField(data, "gospelText")>>

\* estimateLines(r[field]) for a text that can be split
Est(data, field) == estimateLines(ReadingField(data, field), <<>>)

page3Blocks(data) ==
  <<[name |-> "First Reading", lines |-> Est(data, "firstReadingText")],
    [name |-> "Responsorial Psalm",
     lines |-> Est(data, "psalmVerses") + Est(data, "psalmRefrain")],
    [name |-> "Second Reading",
     lines |-> IF NoSecondReading(data) THEN 0
               ELSE Est(data, "secondReadingText")],
    [name |-> "Gospel Acclamation", lines |-> 3]>>

CreedLines_Fixed(data) == 32

\* (data.seasonalSettings?.creedType === 'apostles') ? 18 : 32
CreedLines(data) == IF CreedTypeOf(data) = "apostles" THEN 18 ELSE 32

page4Blocks(data) ==
  <<[name |-> "Gospel", lines |-> Est(data, "gospelText")],
    [name |-> "Creed", lines |-> CreedLines(data)]>>

RECURSIVE TotalLines(_)
\* blocks.reduce((s, b) => s + b.lines, 0)
TotalLines(blocks) ==
  IF blocks = <<>> THEN 0 ELSE Head(blocks).lines + TotalLines(Tail(blocks))

RECURSIVE Biggest_LastWins(_, _)
\* A reduce that would let the later of two equal blocks win
Biggest_LastWins(a, blocks) ==
  IF blocks = <<>> THEN a
  ELSE Biggest_LastWins(IF Head(blocks).lines >= a.lines THEN Head(blocks)
                        ELSE a,
                        Tail(blocks))

RECURSIVE Biggest(_, _)
\* blocks.reduce((a, b) => b.lines > a.lines ? b : a), from a
Biggest(a, blocks) ==
  IF blocks = <<>> THEN a
  ELSE Biggest(IF Head(blocks).lines > a.lines THEN Head(blocks) ELSE a,
               Tail(blocks))

PageWarning_Always(page, blocks) ==
  <<[page |-> page, severity |-> "error",
     biggest |-> Biggest(Head(blocks), Tail(blocks)).name,
     over |-> TotalLines(blocks) - PAGE_CAPACITIES[page].maxLines]>>

\* The warning pushed for a page, if its total exceeds the page's capacity
PageWarning(page, blocks) ==
  IF TotalLines(blocks) > PAGE_CAPACITIES[page].maxLines
  THEN <<[page |-> page, severity |-> "error",
          biggest |-> Biggest(Head(blocks), Tail(blocks)).name,
          over |-> TotalLines(blocks) - PAGE_CAPACITIES[page].maxLines]>>
  ELSE <<>>

\* detectOverflows(data): [threw, warnings]; it throws (a TypeError) when an
\* estimateLines call meets a value it cannot split
DetectOverflows(data) ==
  IF \E i \in 1..Len(TextsRead(data)) : SplitFails(TextsRead(data)[i])
  THEN [threw |-> TRUE, warnings |-> <<>>]
  ELSE [threw |-> FALSE,
        warnings |-> PageWarning(3, page3Blocks(data))
                       \o PageWarning(4, page4Blocks(data))]

---------------------------------------------------------------------------
(* Specification of detectOverflows *)

\* count segments of width letters each, separated by line breaks
Lines(count, width) ==
  [i \in 1..(count * (width + 1) - 1) |->
     IF i % (width + 1) = 0 THEN Newline ELSE "x"]

FirstReadingInputs ==
  {NoValue, <<>>, Lines(1, 6), Lines(40, 1), Lines(41, 1), NumberValue}

PsalmVersesInputs == {NoValue, Lines(41, 1)}

PsalmRefrainInputs == {NoValue, Lines(1, 2)}

SecondReadingInputs == {NoValue, Lines(1, 6), NumberValue}

FlagInputs == {Undef, JsTrue, JsFalse}

\* 43, 44, 57 and 58 lines, the last with a first line that wraps once
GospelInputs ==
  {NoValue, NullValue, Lines(1, 6), Lines(43, 1), Lines(44, 1), Lines(57, 1),
   Xs(66) \o <<Newline>> \o Lines(56, 1)}

ReadingsInputs ==
  {<<>>} \cup
  {<<r>> : r \in [firstReadingText : FirstReadingInputs,
                  psalmVerses : PsalmVersesInputs,
                  psalmRefrain : PsalmRefrainInputs,
                  secondReadingText : SecondReadingInputs,
                  noSecondReading : FlagInputs,
                  gospelText : GospelInputs]}

CreedInputs ==
  {<<>>} \cup {<<[creedType |-> c]>> : c \in {Undef, "", "nicene", "apostles"}}

OverflowInit ==
  /\ ovRecord \in {<<d>> : d \in [readings : ReadingsInputs,
                                  seasonalSettings : CreedInputs]}
  /\ findings = <<>>
  /\ estArgs = <<>>
  /\ estimate = <<>>
  /\ SeasonIdle /\ MusicIdle /\ EditorIdle /\ EntryIdle /\ LaterIdle

\* How many times the detector runs on a record
MaxRuns == 2

\* A call of detectOverflows on the record
DetectOverflowsCall ==
  /\ findings = <<>>
  /\ findings' = <<DetectOverflows(ovRecord[1])>>
  /\ UNCHANGED <<ovRecord, estArgs, estimate,
                 seasonVars, musicVars, editorVars, entryVars, laterVars>>

\* The user switches the record's creed and the detector runs again
SwitchCreed ==
  /\ findings # <<>>
  /\ Len(findings) < MaxRuns
  /\ ovRecord[1].seasonalSettings # <<>>
  /\ \E c \in {"nicene", "apostles"} :
       /\ c # CreedTypeOf(ovRecord[1])
       /\ ovRecord' = <<[ovRecord[1] EXCEPT !.seasonalSettings = <<[creedType |-> c]>>]>>
       /\ findings' = Append(findings, DetectOverflows(ovRecord'[1]))
  /\ UNCHANGED <<estArgs, estimate, seasonVars, musicVars, editorVars, entryVars, laterVars>>

OverflowNext == DetectOverflowsCall \/ SwitchCreed

SpecOverflow == OverflowInit /\ [][OverflowNext]_vars

---------------------------------------------------------------------------
(* Claims about detectOverflows (SpecOverflow) *)

\* The letters of t that begin a printed line: the first letter of a segment
\* and every 65th letter after it
LineStarts(t) ==
  {p \in 1..Len(t) :
     /\ t[p] # Newline
     /\ \E k \in 0..((p - 1) \div 65) :
          LET b == p - 1 - 65 * k
          IN  /\ (b = 0 \/ t[b] = Newline)
              /\ \A j \in (b + 1)..(p - 1) : t[j] # Newline}

\* The ends of the empty segments of t, each of which prints as one line
EmptySegments(t) ==
  {e \in 1..(Len(t) + 1) :
     /\ (e = Len(t) + 1 \/ t[e] = Newline)
     /\ (e = 1 \/ t[e - 1] = Newline)}

\* The estimate of a text, counted from its letters and line breaks
EstOf(t) ==
  IF t \in {<<>>, NoValue, NullValue} THEN 0
  ELSE Cardinality(LineStarts(t)) + Cardinality(EmptySegments(t))

LastFindings == findings[Len(findings)]

\* The pages of the warnings of a result
PagesOf(out) == {out.warnings[i].page : i \in 1..Len(out.warnings)}

\* The page 3 total of the record
Page3Total(d) ==
  EstOf(ReadingField(d, "firstReadingText")) + EstOf(ReadingField(d, "psalmVerses"))
  + EstOf(ReadingField(d, "psalmRefrain"))
  + (IF d.readings # <<>> /\ d.readings[1].noSecondReading \notin {Undef, JsFalse}
     THEN 0 ELSE EstOf(ReadingField(d, "secondReadingText")))
  + 3

\* C13: detectOverflows reports page 3 exactly when the first reading, the
\* psalm verses and refrain, the second reading (unless noSecondReading is
\* set) and 3 lines for the acclamation exceed 85 lines; it reports a page at
\* most once, only pages 3 and 4, and nothing for short texts.
C13_Page3Finding ==
  (findings # <<>> /\ ~LastFindings.threw) =>
    LET d == ovRecord[1]
        w == LastFindings.warnings
    IN  /\ (3 \in PagesOf(LastFindings)) <=> (Page3Total(d) > 85)
        /\ \A i, j \in 1..Len(w) : w[i].page = w[j].page => i = j
        /\ PagesOf(LastFindings) \subseteq {3, 4}
        /\ (Page3Total(d) <= 10 /\ EstOf(ReadingField(d, "gospelText")) <= 10)
             => w = <<>>

\* Page 3 was reported for a total of 86 lines, one line over
C13_Witness ==
  /\ findings # <<>>
  /\ ~LastFindings.threw
  /\ Page3Total(ovRecord[1]) = 86
  /\ \E i \in 1..Len(LastFindings.warnings) :
       LastFindings.warnings[i].page = 3 /\ LastFindings.warnings[i].over = 1

\* C14: detectOverflows reports page 4 exactly when the gospel's estimate plus
\* the creed's lines (18 for 'apostles', 32 otherwise) exceed 75; so with a
\* gospel of 44 to 57 lines, switching the creed to 'apostles' removes the
\* finding and switching it to 'nicene' brings it back.
C14_Page4Finding ==
  (findings # <<>> /\ ~LastFindings.threw) =>
    LET d == ovRecord[1]
        g == EstOf(ReadingField(d, "gospelText"))
    IN  /\ (4 \in PagesOf(LastFindings)) <=>
             (g + (IF CreedTypeOf(d) = "apostles" THEN 18 ELSE 32) > 75)
        /\ (g >= 44 /\ g <= 57) =>
             ((4 \in PagesOf(LastFindings)) <=> (CreedTypeOf(d) # "apostles"))

\* A gospel of 44 lines was reported under the Nicene creed and, after the
\* switch to the Apostles' creed, no longer
C14_Witness ==
  /\ Len(findings) = 2
  /\ EstOf(ReadingField(ovRecord[1], "gospelText")) = 44
  /\ CreedTypeOf(ovRecord[1]) = "apostles"
  /\ 4 \in PagesOf(findings[1])
  /\ 4 \notin PagesOf(findings[2])

\* C15: detectOverflows never throws, whatever blocks or text fields the
\* record lacks, and an absent text counts for zero lines.
C15_NeverThrows ==
  \A k \in 1..Len(findings) : ~findings[k].threw



\* The names of the blocks of a page, in the order they are declared
BlockNames(page) ==
  IF page = 3
  THEN <<"First Reading", "Responsorial Psalm", "Second Reading",
         "Gospel Acclamation">>
  ELSE <<"Gospel", "Creed">>

\* The lines of the blocks of a page, counted from the record's texts
BlockLines(d, page) ==
  IF page = 3
  THEN <<EstOf(ReadingField(d, "firstReadingText")),
         EstOf(ReadingField(d, "psalmVerses"))
           + EstOf(ReadingField(d, "psalmRefrain")),
         IF d.readings # <<>>
            /\ d.readings[1].noSecondReading \notin {Undef, JsFalse}
         THEN 0 ELSE EstOf(ReadingField(d, "secondReadingText")),
         3>>
  ELSE <<EstOf(ReadingField(d, "gospelText")),
         IF CreedTypeOf(d) = "apostles" THEN 18 ELSE 32>>

\* The sum of a short sequence of numbers
SumOf(ls) ==
  IF Len(ls) = 2 THEN ls[1] + ls[2] ELSE ls[1] + ls[2] + ls[3] + ls[4]

\* C27: each finding names the largest block of its page, the earliest
\* declared of equally large blocks, and reports the page's total minus its
\* budget (85 lines for page 3, 75 for page 4)
C27_BiggestAndOver ==
  (findings # <<>> /\ ~LastFindings.threw) =>
    \A k \in 1..Len(LastFindings.warnings) :
      LET w == LastFindings.warnings[k]
          ls == BlockLines(ovRecord[1], w.page)
          budget == IF w.page = 3 THEN 85 ELSE 75
      IN  /\ w.over = SumOf(ls) - budget
          /\ \E i \in 1..Len(ls) :
               /\ w.biggest = BlockNames(w.page)[i]
               /\ \A j \in 1..Len(ls) : ls[j] <= ls[i]
               /\ \A j \in 1..(i - 1) : ls[j] < ls[i]

\* Page 3 was reported where the first reading and the psalm are equally
\* large and larger than the rest, and the finding names the first reading
C27_Witness ==
  /\ findings # <<>>
  /\ ~LastFindings.threw
  /\ LET ls == BlockLines(ovRecord[1], 3)
     IN  ls[1] = ls[2] /\ ls[3] < ls[1] /\ ls[1] > 3
  /\ \E k \in 1..Len(LastFindings.warnings) :
       /\ LastFindings.warnings[k].page = 3
       /\ LastFindings.warnings[k].biggest = "First Reading"
       /\ LastFindings.warnings[k].over = SumOf(BlockLines(ovRecord[1], 3)) - 85

---------------------------------------------------------------------------
(* The server: drafts, sessions, settings, preview and export routes.      *)
(* A request body is [id, status, liturgicalSeason, readings,              *)
(* seasonalSettings]; id and status are Undef when the body has no such    *)
(* key.  A stored draft has the body's fields and approvedBy.  A session   *)
(* token is named after the user it was issued to.                         *)

\* seedDefaultUsers: one seeded user of each role
USERS == [jd |-> "admin", frlarry |-> "pastor", kari |-> "staff"]

ROLE_PERMISSIONS ==
  [admin |-> {"edit_all", "manage_users", "manage_settings", "edit_readings",
              "edit_music", "edit_seasonal", "approve", "export_pdf",
              "edit_announcements", "upload_images", "edit_cover"},
   music_director |-> {"edit_music", "edit_seasonal", "upload_images", "export_pdf"},
   pastor |-> {"edit_readings", "approve", "edit_announcements"},
   staff |-> {"edit_readings", "edit_music", "edit_announcements",
              "edit_seasonal", "export_pdf"}]

\* getSessionUser(token): <<>> for null, else <<username>>
getSessionUser(token) ==
  IF token = <<>> THEN <<>>
  ELSE IF token[1] \in sessions THEN token ELSE <<>>

hasPermission_Anyone(user, permission) == user # <<>>

hasPermission(user, permission) ==
  IF user = <<>> THEN FALSE
  ELSE LET perms == ROLE_PERMISSIONS[USERS[user[1]]]
       IN  permission \in perms \/ "edit_all" \in perms

\* DEFAULT_PARISH_SETTINGS has no requirePastorApproval key
DEFAULT_PARISH_SETTINGS == [requirePastorApproval |-> Undef]

\* loadSettings(): the defaults, overlaid with what was saved
loadSettings ==
  IF settings = <<>> THEN DEFAULT_PARISH_SETTINGS ELSE settings[1]

\* The ids the store can hold
DraftIds == {"d1", "d2"}

loadDraft(id) == IF id \in DOMAIN drafts THEN drafts[id] ELSE <<>>

\* generateId(): an id no stored draft has
generateId == CHOOSE id \in DraftIds : drafts[id] = <<>>

\* A save that would merge into the stored record: the status and the
\* approver of the stored draft survive a payload that does not repeat them
saveDraft_Merge(data) ==
  LET old == loadDraft(data.id)
  IN  [data EXCEPT
         !.id = IF Truthy(data.id) THEN data.id ELSE generateId,
         !.status = IF old = <<>> THEN Or(data.status, "draft")
                    ELSE Or(data.status, old[1].status),
         !.approvedBy = IF old = <<>> THEN data.approvedBy
                        ELSE Or(data.approvedBy, old[1].approvedBy)]

\* saveDraft(data): the record written under its id
saveDraft(data) ==
  [data EXCEPT !.id = IF Truthy(data.id) THEN data.id ELSE generateId,
               !.status = Or(data.status, "draft")]

\* The drafts namespace after kv.set('drafts', record.id, record)
Stored(record) == [drafts EXCEPT ![record.id] = <<record>>]

\* The approval gate of the export route: TRUE when it answers 403
ApprovalGate_OverflowToo(body) ==
  \/ /\ Truthy(loadSettings.requirePastorApproval)
     /\ Truthy(body.id)
     /\ loadDraft(body.id) # <<>>
     /\ loadDraft(body.id)[1].status # "approved"
  \/ DetectOverflows(body).warnings # <<>>

ApprovalGate(body) ==
  /\ Truthy(loadSettings.requirePastorApproval)
  /\ Truthy(body.id)
  /\ loadDraft(body.id) # <<>>
  /\ loadDraft(body.id)[1].status # "approved"

\* The creed type the engines lay out: the record's, else the season's
ResolvedForLayout(body) ==
  [body EXCEPT !.seasonalSettings =
     <<[creedType |-> Or(CreedTypeOf(body),
                         getSeasonDefaults(body.liturgicalSeason).creedType)]>>]

\* duplicateDraft(id), for the loaded original: the copy handed to saveDraft
duplicateDraft_SameId(original) ==
  [original EXCEPT !.status = "draft", !.feastName = @ \o " (copy)"]

duplicateDraft(original) ==
  [original EXCEPT !.id = generateId, !.status = "draft",
                   !.feastName = @ \o " (copy)"]

\* The drafts namespace after kv.del('drafts', id)
deleteDraft(id) == [drafts EXCEPT ![id] = <<>>]

---------------------------------------------------------------------------
(* Specification of the server *)

MaxRequests == 4

\* 44 one-letter lines of gospel overflow page 4 under the Nicene Creed;
\* 'pentecost' is a season the schema rejects
ContentInputs ==
  {[liturgicalSeason |-> "ordinary", gospelText |-> Lines(1, 6)],
   [liturgicalSeason |-> "ordinary", gospelText |-> Lines(44, 1)],
   [liturgicalSeason |-> "pentecost", gospelText |-> Lines(1, 6)]}

BodyInputs ==
  {[id |-> i, status |-> st, approvedBy |-> Undef, feastName |-> "Test Sunday",
    liturgicalSeason |-> c.liturgicalSeason,
    readings |-> <<[firstReadingText |-> NoValue, psalmVerses |-> NoValue,
                    psalmRefrain |-> NoValue, secondReadingText |-> NoValue,
                    noSecondReading |-> Undef, gospelText |-> c.gospelText]>>,
    seasonalSettings |-> <<[creedType |-> "nicene"]>>] :
   i \in {Undef} \cup DraftIds, st \in {Undef, "approved"}, c \in ContentInputs}

\* What the editor saves: records the schema accepts
DraftInputs == {b \in BodyInputs : validateInput(b)}

\* What is previewed or exported: the editor's record, with the id of the
\* draft it was loaded from or saved as
RenderInputs == {b \in BodyInputs : b.status = Undef}

\* What an engine returns for each of these records: the warnings of the
\* resolved record
RenderedByInput ==
  [b \in BodyInputs |->
     [warnings |-> DetectOverflows(ResolvedForLayout(b)).warnings]]

Rendered(body) == RenderedByInput[body]

\* detectOverflows(req.body) for each of these records
OverflowsByInput == [b \in BodyInputs |-> DetectOverflows(b).warnings]

\* x-session-token: none, or the token issued to a user
TokenInputs == {<<>>} \cup {<<u>> : u \in DOMAIN USERS}

ServerInit ==
  /\ drafts = [id \in DraftIds |-> <<>>]
  /\ settings = <<>>
  /\ sessions = {}
  /\ response = <<>>
  /\ requests = 0
  /\ SeasonIdle /\ MusicIdle /\ EditorIdle /\ EntryIdle /\ LinesIdle /\ EngineIdle
  /\ AccountIdle

\* The answer to a request, with what the store held when it arrived
Answer(route, token, body, status, out) ==
  /\ requests < MaxRequests
  /\ requests' = requests + 1
  /\ response' = <<[route |-> route, token |-> token, body |-> body,
                    status |-> status, out |-> out,
                    draftBefore |-> IF body = <<>> THEN <<>>
                                    ELSE loadDraft(body[1].id),
                    required |-> Truthy(loadSettings.requirePastorApproval)]>>
  /\ UNCHANGED <<seasonVars, musicVars, editorVars, entryVars, linesVars,
                 engineVars, accountVars>>

\* POST /api/auth/login: in beta mode the username alone logs in
PostLogin ==
  \E username \in {Undef, "nobody"} \cup DOMAIN USERS :
    IF username \notin DOMAIN USERS
    THEN /\ Answer("login", <<>>, <<>>, 401, <<>>)
         /\ UNCHANGED <<drafts, settings, sessions>>
    ELSE /\ sessions' = sessions \cup {username}
         /\ Answer("login", <<>>, <<>>, 200, <<username>>)
         /\ UNCHANGED <<drafts, settings>>

\* PUT /api/settings
PutSettings ==
  \E flag \in {JsTrue, JsFalse} :
    /\ settings' = <<[requirePastorApproval |-> flag]>>
    /\ Answer("settings", <<>>, <<>>, 200, <<>>)
    /\ UNCHANGED <<drafts, sessions>>

\* POST /api/drafts
PostDrafts ==
  \E body \in DraftInputs :
    /\ Truthy(body.id) \/ \E id \in DraftIds : drafts[id] = <<>>
    /\ drafts' = Stored(saveDraft(body))
    /\ Answer("drafts", <<>>, <<body>>, 200, <<saveDraft(body)>>)
    /\ UNCHANGED <<settings, sessions>>

SubmitUpdate(a) == [a.d EXCEPT !.status = "review"]

ApproveUpdate(a) == [a.d EXCEPT !.status = "approved", !.approvedBy = a.u]

RequestChangesUpdate(a) == [a.d EXCEPT !.status = "draft", !.approvedBy = Undef]

\* What the handler of a draft route writes into the loaded draft a.d for
\* the session user a.u
UpdateOf(route, a) ==
  CASE route = "submit-for-review" -> SubmitUpdate(a)
    [] route = "approve"           -> ApproveUpdate(a)
    [] route = "request-changes"   -> RequestChangesUpdate(a)

\* A route /api/drafts/:id/... behind requireAuth and, when permission is
\* given, requirePermission(permission[1])
DraftRoute(route, permission) ==
  \E token \in TokenInputs, id \in DraftIds :
    LET user == getSessionUser(token)
        body == <<[id |-> id]>>
    IN  IF user = <<>>
        THEN /\ Answer(route, token, body, 401, <<>>)
             /\ UNCHANGED <<drafts, settings, sessions>>
        ELSE IF permission # <<>> /\ ~hasPermission(user, permission[1])
        THEN /\ Answer(route, token, body, 403, <<>>)
             /\ UNCHANGED <<drafts, settings, sessions>>
        ELSE IF loadDraft(id) = <<>>
        THEN /\ Answer(route, token, body, 404, <<>>)
             /\ UNCHANGED <<drafts, settings, sessions>>
        ELSE /\ drafts' = Stored(saveDraft(UpdateOf(route, [d |-> loadDraft(id)[1],
                                                         u |-> user[1]])))
             /\ Answer(route, token, body, 200, <<>>)
             /\ UNCHANGED <<settings, sessions>>

\* POST /api/drafts/:id/submit-for-review
PostSubmitForReview == DraftRoute("submit-for-review", <<>>)

\* POST /api/drafts/:id/approve
PostApprove == DraftRoute("approve", <<"approve">>)

\* POST /api/drafts/:id/request-changes
PostRequestChanges == DraftRoute("request-changes", <<"approve">>)

\* POST /api/drafts/:id/duplicate
PostDuplicate ==
  \E id \in DraftIds :
    IF loadDraft(id) = <<>>
    THEN /\ Answer("duplicate", <<>>, <<[id |-> id]>>, 404, <<>>)
         /\ UNCHANGED <<drafts, settings, sessions>>
    ELSE /\ \E free \in DraftIds : drafts[free] = <<>>
         /\ drafts' = Stored(saveDraft(duplicateDraft(loadDraft(id)[1])))
         /\ Answer("duplicate", <<>>, <<[id |-> id]>>, 200,
                   <<saveDraft(duplicateDraft(loadDraft(id)[1]))>>)
         /\ UNCHANGED <<settings, sessions>>

\* DELETE /api/drafts/:id
DeleteDraft ==
  \E id \in DraftIds :
    /\ drafts' = deleteDraft(id)
    /\ Answer("delete", <<>>, <<[id |-> id]>>, 200, <<>>)
    /\ UNCHANGED <<settings, sessions>>

\* POST /api/preview
PostPreview ==
  \E body \in RenderInputs :
    /\ Answer("preview", <<>>, <<body>>, 200,
              <<[html |-> Rendered(body),
                 overflows |-> OverflowsByInput[body]]>>)
    /\ UNCHANGED <<drafts, settings, sessions>>

\* POST /api/generate-pdf
PostGeneratePdf ==
  \E body \in RenderInputs :
    IF ApprovalGate(body)
    THEN /\ Answer("generate-pdf", <<>>, <<body>>, 403, <<>>)
         /\ UNCHANGED <<drafts, settings, sessions>>
    ELSE /\ Answer("generate-pdf", <<>>, <<body>>, 200, <<[pdf |-> Rendered(body)]>>)
         /\ drafts' = IF Truthy(body.id) /\ loadDraft(body.id) # <<>>
                      THEN Stored(saveDraft([loadDraft(body.id)[1] EXCEPT
                                               !.status = "exported"]))
                      ELSE drafts
         /\ UNCHANGED <<settings, sessions>>

ServerNext ==
  \/ PostLogin \/ PutSettings \/ PostDrafts
  \/ PostSubmitForReview \/ PostApprove \/ PostRequestChanges
  \/ PostDuplicate \/ DeleteDraft
  \/ PostPreview \/ PostGeneratePdf

SpecServer == ServerInit /\ [][ServerNext]_vars

---------------------------------------------------------------------------
(* Claims about the server (SpecServer) *)

\* The overflow findings of the record a request carried
FindingsOf(r) == DetectOverflows(r.body[1]).warnings

\* What the gate is documented to read: the setting, and the status of the
\* stored draft the request names
Unapproved(r) ==
  /\ r.required
  /\ Truthy(r.body[1].id)
  /\ r.draftBefore # <<>>
  /\ r.draftBefore[1].status # "approved"

\* C16: overflow findings are advisory.  Saving a draft always stores it and
\* answers 200, whatever findings the record has; an export is refused (403)
\* exactly when approval is required and the stored draft the request names
\* is not approved, and every export that is not refused produces the PDF with
\* its findings as warnings.
C16_OverflowAdvisory ==
  response # <<>> =>
    LET r == response[1]
    IN  /\ r.route = "drafts" =>
             /\ r.status = 200
             /\ drafts[r.out[1].id] = r.out
             /\ FindingsOf(r) = DetectOverflows(r.out[1]).warnings
        /\ r.route = "generate-pdf" =>
             /\ r.status = 403 <=> Unapproved(r)
             /\ r.status # 403 => r.status = 200 /\ r.out # <<>>

\* A record with a page-4 finding was exported, and one is stored as a draft
C16_Witness ==
  /\ response # <<>>
  /\ response[1].route = "generate-pdf"
  /\ response[1].status = 200
  /\ response[1].out[1].pdf.warnings # <<>>
  /\ FindingsOf(response[1]) # <<>>
  /\ \E id \in DraftIds :
       drafts[id] # <<>> /\ DetectOverflows(drafts[id][1]).warnings # <<>>

\* C18: a record the schema rejects is never rendered: the preview route and
\* the export route answer it with 400 and produce nothing.
C18_InvalidNeverRendered ==
  response # <<>> =>
    LET r == response[1]
    IN  (r.route \in {"preview", "generate-pdf"} /\ ~validateInput(r.body[1])) =>
          r.status = 400 /\ r.out = <<>>

\* C19: while approval is required, an export produces a PDF only for a stored
\* draft whose status is 'approved'; an export request for a stored draft in
\* 'draft' or 'review' is answered 403 and leaves the draft as it was.
C19_ApprovalGate ==
  response # <<>> =>
    LET r == response[1]
    IN  (r.route = "generate-pdf" /\ r.required) =>
          /\ r.status = 200 =>
               r.draftBefore # <<>> /\ r.draftBefore[1].status = "approved"
          /\ (r.draftBefore # <<>> /\ r.draftBefore[1].status \in {"draft", "review"}) =>
               r.status = 403 /\ drafts[r.body[1].id] = r.draftBefore

\* A stored draft's status becomes 'approved' in this step
BecomesApproved(id) ==
  /\ drafts'[id] # <<>>
  /\ drafts'[id][1].status = "approved"
  /\ drafts[id] = <<>> \/ drafts[id][1].status # "approved"

\* C20: over every sequence of requests, a stored draft's status becomes
\* 'approved' only through an approve request that carries the session of a
\* user with the approve permission; an approve or request-changes request
\* without a session is answered 401, one without the permission 403, and
\* both leave the drafts as they were.
C20_OnlyApproversApprove ==
  [][/\ \A id \in DraftIds :
          BecomesApproved(id) =>
            /\ response'[1].route = "approve"
            /\ response'[1].status = 200
            /\ response'[1].body[1].id = id
            /\ hasPermission(getSessionUser(response'[1].token), "approve")
     /\ response'[1].route \in {"approve", "request-changes"} =>
          /\ getSessionUser(response'[1].token) = <<>> =>
               response'[1].status = 401 /\ drafts' = drafts
          /\ (/\ getSessionUser(response'[1].token) # <<>>
              /\ ~hasPermission(getSessionUser(response'[1].token), "approve")) =>
               response'[1].status = 403 /\ drafts' = drafts]_vars

\* The status changes the lifecycle allows without an export
PipelineSteps ==
  {<<"draft", "review">>, <<"review", "approved">>, <<"review", "draft">>}

\* C21: a draft is created with status 'draft', and every later change of a
\* stored draft's status is draft to review, review to approved, review to
\* draft, or to 'exported' by an export request that produced the PDF for it.
C21_Lifecycle ==
  [][\A id \in DraftIds :
       /\ (drafts[id] = <<>> /\ drafts'[id] # <<>>) =>
            drafts'[id][1].status = "draft"
       /\ (/\ drafts[id] # <<>> /\ drafts'[id] # <<>>
           /\ drafts'[id][1].status # drafts[id][1].status) =>
            \/ <<drafts[id][1].status, drafts'[id][1].status>> \in PipelineSteps
            \/ /\ drafts'[id][1].status = "exported"
               /\ response'[1].route = "generate-pdf"
               /\ response'[1].status = 200
               /\ response'[1].body[1].id = id]_vars

\* C22: an export request for a stored draft that was exported before (its
\* status is 'exported') succeeds again, whatever the settings are.
C22_ReExport ==
  response # <<>> =>
    LET r == response[1]
    IN  (/\ r.route = "generate-pdf"
         /\ r.draftBefore # <<>>
         /\ r.draftBefore[1].status = "exported") =>
          r.status = 200 /\ r.out # <<>>


\* C23: a stored draft stays loadable under its id through every request
\* except a delete of that very id, and a duplicate leaves the original as
\* it was
C23_NoImplicitDelete ==
  [][\A id \in DraftIds :
       /\ (drafts[id] # <<>> /\ drafts'[id] = <<>>) =>
            /\ response'[1].route = "delete"
            /\ response'[1].body[1].id = id
       /\ (/\ drafts[id] # <<>>
           /\ requests' # requests
           /\ response'[1].route = "duplicate"
           /\ response'[1].body[1].id = id) =>
            drafts'[id] = drafts[id]]_vars

\* A duplicate was answered with a copy while the original is still stored
C23_Witness ==
  /\ response # <<>>
  /\ response[1].route = "duplicate"
  /\ response[1].status = 200
  /\ response[1].draftBefore # <<>>
  /\ drafts[response[1].body[1].id] = response[1].draftBefore
  /\ response[1].out[1].id # response[1].body[1].id
  /\ drafts[response[1].out[1].id] = response[1].out


\* The fields of a draft record other than id and status
PayloadFields == {"approvedBy", "feastName", "liturgicalSeason", "readings",
                  "seasonalSettings"}

\* C29: a save replaces the stored record wholesale: the stored record has
\* the payload's fields, the payload's id (else a new one) and the payload's
\* status (else 'draft'), whatever was stored before; an editor save of an
\* approved draft stores it as 'draft' without approvedBy
C29_SaveReplaces ==
  (response # <<>> /\ response[1].route = "drafts") =>
    LET r == response[1]
        data == r.body[1]
        stored == drafts[r.out[1].id]
    IN  /\ stored = r.out
        /\ \A f \in PayloadFields : stored[1][f] = data[f]
        /\ Truthy(data.id) => stored[1].id = data.id
        /\ ~Truthy(data.id) => r.draftBefore = <<>>
        /\ stored[1].status = IF data.status = Undef THEN "draft"
                              ELSE data.status
        /\ (data.status = Undef /\ data.approvedBy = Undef) =>
             stored[1].status = "draft" /\ stored[1].approvedBy = Undef

\* An approved draft, with its approver, was saved again by the editor
C29_Witness ==
  /\ response # <<>>
  /\ response[1].route = "drafts"
  /\ response[1].draftBefore # <<>>
  /\ response[1].draftBefore[1].status = "approved"
  /\ response[1].draftBefore[1].approvedBy # Undef
  /\ response[1].body[1].status = Undef
  /\ drafts[response[1].body[1].id][1].status = "draft"
  /\ drafts[response[1].body[1].id][1].approvedBy = Undef


\* C30: a stored draft carries an approver only while its status is
\* 'approved' or 'exported'
C30_ApprovalMatchesStatus ==
  \A id \in DraftIds :
    (drafts[id] # <<>> /\ drafts[id][1].approvedBy # Undef) =>
      drafts[id][1].status \in {"approved", "exported"}

---------------------------------------------------------------------------
(* Users and sessions (the user store over the key-value store).  A user   *)
(* is [id, username, role]; the sessions map is one value, loaded and      *)
(* saved whole.  Tokens are numbered in the order they are generated.      *)

ROLES == {"admin", "music_director", "pastor", "staff"}

\* The ids the users namespace can hold
UserIds == {"u1", "u2", "u3", "u4"}

\* How many session tokens are generated
MaxTokens == 3

\* How many calls are made to the user store
MaxOps == 4

\* seedDefaultUsers(): the director and the two music directors of the
\* seeded users
SeededUsers ==
  [id \in UserIds |->
     CASE id = "u1" -> <<[id |-> id, username |-> "jd", role |-> "admin"]>>
       [] id = "u2" -> <<[id |-> id, username |-> "morris",
                          role |-> "music_director"]>>
       [] id = "u3" -> <<[id |-> id, username |-> "vincent",
                          role |-> "music_director"]>>
       [] OTHER -> <<>>]

getUser(id) == IF id \in DOMAIN users THEN users[id] ELSE <<>>

\* The stored users with a username
UsersNamed(username) ==
  {id \in UserIds : users[id] # <<>> /\ users[id][1].username = username}

\* createUser({username, role}): the error thrown, or "" and the users
\* namespace with the new user under a new id
createUser(input) ==
  IF input.role \notin ROLES
  THEN [error |-> "Invalid role", users |-> users]
  ELSE IF ~Truthy(input.username)
  THEN [error |-> "Username required", users |-> users]
  ELSE IF UsersNamed(input.username) # {}
  THEN [error |-> "Username already exists", users |-> users]
  ELSE LET id == CHOOSE i \in UserIds : users[i] = <<>>
       IN  [error |-> "",
            users |-> [users EXCEPT ![id] = <<[id |-> id,
                                               username |-> input.username,
                                               role |-> input.role]>>]]

\* updateUser(id, updates): { ...user, ...updates, id }; a key the updates
\* do not carry is Undef here
updateUser(id, updates) ==
  IF getUser(id) = <<>> THEN users
  ELSE [users EXCEPT ![id] =
          <<[id |-> id,
             username |-> IF updates.username = Undef THEN @[1].username
                          ELSE updates.username,
             role |-> IF updates.role = Undef THEN @[1].role
                      ELSE updates.role]>>]

deleteUser(id) == [users EXCEPT ![id] = <<>>]

\* getSessionUser(token) is not null: the token has a session and the
\* session's user exists
ValidToken(token) ==
  token \in DOMAIN kvSessions /\ getUser(kvSessions[token]) # <<>>

\* createSession(userId): the map it saves, from the map it loaded: without
\* the sessions of the other users of the user's role, with the new token
createSession(loaded, userId, token) ==
  LET user == getUser(userId)
      toRemove ==
        IF user = <<>> THEN {}
        ELSE {tok \in DOMAIN loaded :
                /\ getUser(loaded[tok]) # <<>>
                /\ getUser(loaded[tok])[1].role = user[1].role
                /\ loaded[tok] # userId}
  IN  [t \in (DOMAIN loaded \ toRemove) \cup {token} |->
         IF t = token THEN userId ELSE loaded[t]]

\* destroySession(token): the map it saves, from the map it loaded
destroySession(loaded, token) ==
  [t \in DOMAIN loaded \ {token} |-> loaded[t]]

\* The tokens issued so far to the other users of a user's role
SameRoleTokens(userId) ==
  {t \in 1..Len(tokenLog.owner) :
     /\ tokenLog.owner[t] # userId
     /\ getUser(tokenLog.owner[t]) # <<>>
     /\ getUser(userId) # <<>>
     /\ getUser(tokenLog.owner[t])[1].role = getUser(userId)[1].role}

\* The tokens issued so far to a user
TokensOf(userId) ==
  {t \in 1..Len(tokenLog.owner) : tokenLog.owner[t] = userId}

AccountInit ==
  /\ users = SeededUsers
  /\ kvSessions = <<>>
  /\ inflight = [c \in {1, 2} |-> <<>>]
  /\ tokenLog = [owner |-> <<>>, returned |-> {}, ended |-> {}, ops |-> 0]
  /\ SeasonIdle /\ MusicIdle /\ EditorIdle /\ EntryIdle /\ LinesIdle
  /\ ServerIdle /\ EngineIdle

\* One more call to the user store
Counted(log) == [log EXCEPT !.ops = @ + 1]

AccountFrame ==
  /\ tokenLog.ops < MaxOps
  /\ UNCHANGED <<seasonVars, musicVars, editorVars, entryVars, linesVars,
                 serverVars, engineVars>>

\* POST /api/auth/login: authenticateUser finds a user by the username,
\* createSession issues a token
Login ==
  /\ AccountFrame
  /\ Len(tokenLog.owner) < MaxTokens
  /\ \E username \in {"jd", "morris", "vincent", "nobody"} :
       IF UsersNamed(username) = {}
       THEN /\ tokenLog' = Counted(tokenLog)
            /\ UNCHANGED <<users, kvSessions, inflight>>
       ELSE \E userId \in UsersNamed(username) :
              LET token == Len(tokenLog.owner) + 1
              IN  /\ kvSessions' = createSession(kvSessions, userId, token)
                  /\ tokenLog' =
                       Counted([tokenLog EXCEPT
                                  !.owner = Append(@, userId),
                                  !.returned = @ \cup {token},
                                  !.ended = @ \cup SameRoleTokens(userId)])
                  /\ UNCHANGED <<users, inflight>>

\* POST /api/auth/logout with a token that was issued
Logout ==
  /\ AccountFrame
  /\ \E token \in 1..Len(tokenLog.owner) :
       /\ kvSessions' = destroySession(kvSessions, token)
       /\ tokenLog' = Counted([tokenLog EXCEPT !.ended = @ \cup {token}])
  /\ UNCHANGED <<users, inflight>>

\* POST /api/users
CreateUser ==
  /\ AccountFrame
  /\ \E i \in UserIds : users[i] = <<>>
  /\ \E username \in {Undef, "jd", "donna"}, role \in {"staff", "organist"} :
       /\ users' = createUser([username |-> username, role |-> role]).users
       /\ tokenLog' = Counted(tokenLog)
  /\ UNCHANGED <<kvSessions, inflight>>

\* PUT /api/users/:id with a new username, a new role, or both
UpdateUser ==
  /\ AccountFrame
  /\ \E id \in UserIds, username \in {Undef, "jd", "donna"},
        role \in {Undef, "admin", "staff"} :
       /\ username # Undef \/ role # Undef
       /\ users' = updateUser(id, [username |-> username, role |-> role])
       /\ tokenLog' = Counted(tokenLog)
  /\ UNCHANGED <<kvSessions, inflight>>

\* DELETE /api/users/:id
DeleteUser ==
  /\ AccountFrame
  /\ \E id \in UserIds :
       /\ users' = deleteUser(id)
       /\ tokenLog' = Counted([tokenLog EXCEPT !.ended = @ \cup TokensOf(id)])
  /\ UNCHANGED <<kvSessions, inflight>>

AccountNext == Login \/ Logout \/ CreateUser \/ UpdateUser \/ DeleteUser

SpecAccounts == AccountInit /\ [][AccountNext]_vars

---------------------------------------------------------------------------
(* Calls of createSession and destroySession in flight together: each     *)
(* loads the sessions map, awaits, and saves the map it built              *)

\* createSession(userId) generates its token and loads the sessions map
BeginCreateSession ==
  /\ AccountFrame
  /\ Len(tokenLog.owner) < MaxTokens
  /\ \E c \in DOMAIN inflight, userId \in UserIds :
       /\ inflight[c] = <<>>
       /\ getUser(userId) # <<>>
       /\ inflight' = [inflight EXCEPT ![c] =
                         <<[op |-> "createSession", userId |-> userId,
                            token |-> Len(tokenLog.owner) + 1,
                            sessions |-> kvSessions]>>]
       /\ tokenLog' = Counted([tokenLog EXCEPT
                                 !.owner = Append(@, userId),
                                 !.ended = @ \cup SameRoleTokens(userId)])
  /\ UNCHANGED <<users, kvSessions>>

\* ... and saves the map and returns the token
EndCreateSession ==
  /\ UNCHANGED <<seasonVars, musicVars, editorVars, entryVars, linesVars,
                 serverVars, engineVars>>
  /\ \E c \in DOMAIN inflight :
       /\ inflight[c] # <<>>
       /\ inflight[c][1].op = "createSession"
       /\ kvSessions' = createSession(inflight[c][1].sessions,
                                      inflight[c][1].userId,
                                      inflight[c][1].token)
       /\ tokenLog' = [tokenLog EXCEPT !.returned = @ \cup {inflight[c][1].token}]
       /\ inflight' = [inflight EXCEPT ![c] = <<>>]
  /\ UNCHANGED users

\* destroySession(token) loads the sessions map
BeginDestroySession ==
  /\ AccountFrame
  /\ \E c \in DOMAIN inflight, token \in tokenLog.returned :
       /\ inflight[c] = <<>>
       /\ inflight' = [inflight EXCEPT ![c] =
                         <<[op |-> "destroySession", userId |-> "",
                            token |-> token, sessions |-> kvSessions]>>]
       /\ tokenLog' = Counted([tokenLog EXCEPT !.ended = @ \cup {token}])
  /\ UNCHANGED <<users, kvSessions>>

\* ... and saves the map without the token
EndDestroySession ==
  /\ UNCHANGED <<seasonVars, musicVars, editorVars, entryVars, linesVars,
                 serverVars, engineVars>>
  /\ \E c \in DOMAIN inflight :
       /\ inflight[c] # <<>>
       /\ inflight[c][1].op = "destroySession"
       /\ kvSessions' = destroySession(inflight[c][1].sessions,
                                       inflight[c][1].token)
       /\ inflight' = [inflight EXCEPT ![c] = <<>>]
  /\ UNCHANGED <<users, tokenLog>>

InterleavedNext ==
  \/ BeginCreateSession \/ EndCreateSession
  \/ BeginDestroySession \/ EndDestroySession
  \/ DeleteUser

SpecInterleaved == AccountInit /\ [][InterleavedNext]_vars

---------------------------------------------------------------------------
(* Claims about users and sessions (SpecAccounts, SpecInterleaved) *)

\* C24: no two valid sessions belong to two different users of one role
C24_ExclusiveLogin ==
  \A t1, t2 \in DOMAIN kvSessions :
    (/\ ValidToken(t1) /\ ValidToken(t2)
     /\ kvSessions[t1] # kvSessions[t2]) =>
      getUser(kvSessions[t1])[1].role # getUser(kvSessions[t2])[1].role

\* C25: no two stored users share a username
C25_UsernamesUnique ==
  \A i, j \in UserIds :
    (users[i] # <<>> /\ users[j] # <<>> /\ i # j) =>
      users[i][1].username # users[j][1].username

\* The role of the user a token was issued to
RoleOfToken(t) == SeededUsers[tokenLog.owner[t]][1].role

\* C28: a token createSession has returned is valid until it is destroyed,
\* its user is deleted, or another user of its user's role logs in, also
\* when the calls in flight together are for users of different roles: here
\* for every returned token whose user's role no other issued token shares
C28_TokenStaysValid ==
  \A t \in tokenLog.returned \ tokenLog.ended :
    (\A t2 \in 1..Len(tokenLog.owner) :
       t2 # t => RoleOfToken(t2) # RoleOfToken(t)) =>
      ValidToken(t)

---------------------------------------------------------------------------
(* The conditional sections of the two layout engines.  An engine resolves *)
(* the record it is given, then reads d = [top, ss] (the resolved record   *)
(* with its seasonalSettings object) and x, the fields the resolver passes *)
(* through: readings.noSecondReading, readings.secondReadingCitation and   *)
(* childrenLiturgyEnabled.                                                 *)

\* A JavaScript boolean for a condition
JsBool(b) == IF b THEN JsTrue ELSE JsFalse

\* data.seasonalSettings || {}
SsOf(d) == IF d.ss = <<>> THEN EmptySs ELSE d.ss[1]

\* --- pdf-generator.js ---

PdfIncludePostlude_SeasonOnly(d) == JsBool(d.top.liturgicalSeason # "lent")

\* this.includePostlude
PdfIncludePostlude(d) ==
  IF SsOf(d).includePostlude # Undef THEN SsOf(d).includePostlude
  ELSE JsBool(d.top.liturgicalSeason # "lent")

\* this.showAdventWreath
PdfShowAdventWreath(d) ==
  IF SsOf(d).adventWreath # Undef THEN SsOf(d).adventWreath
  ELSE JsBool(d.top.liturgicalSeason = "advent")

PdfEntranceHeading(d) ==
  IF Or(SsOf(d).entranceType, "processional") = "processional"
  THEN "Processional Hymn" ELSE "Entrance Antiphon"

PdfConfiteor(d) == Or(SsOf(d).penitentialAct, "confiteor") = "confiteor"

PdfShowGloria(d) ==
  IF SsOf(d).gloria # Undef THEN SsOf(d).gloria
  ELSE JsBool(d.top.liturgicalSeason # "lent" /\ d.top.liturgicalSeason # "advent")

PdfSecondReading(x) ==
  ~Truthy(x.noSecondReading) /\ Truthy(x.secondReadingCitation)

PdfAcclamationText(d) ==
  IF d.top.liturgicalSeason = "lent"
  THEN (IF SsOf(d).lentenAcclamation = "alternate"
        THEN "GOSPEL_ACCLAMATION_LENTEN_ALT" ELSE "GOSPEL_ACCLAMATION_LENTEN")
  ELSE "GOSPEL_ACCLAMATION_STANDARD"

\* The sections renderPage2..renderPage7 lay out
PdfSections(d, x) ==
  [gloria |-> Truthy(PdfShowGloria(d)),
   entrance |-> PdfEntranceHeading(d),
   confession |-> PdfConfiteor(d),
   acclamation |-> PdfAcclamationText(d),
   postlude |-> Truthy(PdfIncludePostlude(d)),
   wreath |-> Truthy(PdfShowAdventWreath(d)),
   secondReading |-> PdfSecondReading(x),
   childrenLiturgy |-> Truthy(x.childrenLiturgyEnabled)]

\* --- renderBookletHtml ---

HtmlShowGloria(d) ==
  IF SsOf(d).gloria # Undef THEN SsOf(d).gloria
  ELSE JsBool(d.top.liturgicalSeason # "lent" /\ d.top.liturgicalSeason # "advent")

HtmlEntranceHeading(d) ==
  IF Or(SsOf(d).entranceType, "processional") = "processional"
  THEN "Processional Hymn" ELSE "Entrance Antiphon"

HtmlConfiteor(d) == Or(SsOf(d).penitentialAct, "confiteor") = "confiteor"

HtmlAcclamationText(d) ==
  IF d.top.liturgicalSeason = "lent"
  THEN (IF SsOf(d).lentenAcclamation = "alternate"
        THEN "GOSPEL_ACCLAMATION_LENTEN_ALT" ELSE "GOSPEL_ACCLAMATION_LENTEN")
  ELSE "GOSPEL_ACCLAMATION_STANDARD"

HtmlIncludePostlude(d) ==
  IF SsOf(d).includePostlude # Undef THEN SsOf(d).includePostlude
  ELSE JsBool(d.top.liturgicalSeason # "lent")

HtmlShowAdventWreath(d) ==
  IF SsOf(d).adventWreath # Undef THEN SsOf(d).adventWreath
  ELSE JsBool(d.top.liturgicalSeason = "advent")

HtmlSecondReading(x) ==
  ~Truthy(x.noSecondReading) /\ Truthy(x.secondReadingCitation)

\* The sections the page template includes
HtmlSections(d, x) ==
  [gloria |-> Truthy(HtmlShowGloria(d)),
   entrance |-> HtmlEntranceHeading(d),
   confession |-> HtmlConfiteor(d),
   acclamation |-> HtmlAcclamationText(d),
   postlude |-> Truthy(HtmlIncludePostlude(d)),
   wreath |-> Truthy(HtmlShowAdventWreath(d)),
   secondReading |-> HtmlSecondReading(x),
   childrenLiturgy |-> Truthy(x.childrenLiturgyEnabled)]

---------------------------------------------------------------------------
(* Specification of the two engines on one record *)

PassThroughInputs ==
  {[noSecondReading |-> Undef, secondReadingCitation |-> Undef,
    childrenLiturgyEnabled |-> Undef],
   [noSecondReading |-> JsFalse, secondReadingCitation |-> "Rom 8:31b-34",
    childrenLiturgyEnabled |-> JsTrue],
   [noSecondReading |-> JsTrue, secondReadingCitation |-> "Rom 8:31b-34",
    childrenLiturgyEnabled |-> JsFalse]}

EngineInit ==
  /\ RawInput(heap0)
  /\ recs = heap0.recs
  /\ sss = heap0.sss
  /\ results = <<>>
  /\ resultSnaps = <<>>
  /\ lookup = <<>>
  /\ engineData \in {<<x>> : x \in PassThroughInputs}
  /\ printed = <<>>
  /\ previewed = <<>>
  /\ MusicIdle /\ EditorIdle /\ EntryIdle /\ LinesIdle /\ ServerIdle
  /\ AccountIdle

\* The heap after an engine's applySeasonDefaults(data) call returned h
EngineResolved(h) ==
  /\ recs' = h.recs
  /\ sss' = h.sss
  /\ results' = Append(results, h.ret)
  /\ resultSnaps' = Append(resultSnaps, DeepValue(h, h.ret))
  /\ UNCHANGED <<heap0, lookup, engineData, musicVars, editorVars, entryVars,
                 linesVars, serverVars, accountVars>>

\* new WorshipAidPdfGenerator(data).generate(outputPath): resolves record 1
\* and lays out what the resolver returned
GeneratePdfRun ==
  /\ printed = <<>>
  /\ \E h \in {applySeasonDefaults(Heap, 1)} :
       /\ EngineResolved(h)
       /\ printed' = <<PdfSections(DeepValue(h, h.ret), engineData[1])>>
  /\ UNCHANGED previewed

\* renderBookletHtml(data): resolves record 1 and lays out what the resolver
\* returned
RenderBookletHtmlRun ==
  /\ previewed = <<>>
  /\ \E h \in {applySeasonDefaults(Heap, 1)} :
       /\ EngineResolved(h)
       /\ previewed' = <<HtmlSections(DeepValue(h, h.ret), engineData[1])>>
  /\ UNCHANGED printed

EngineNext == GeneratePdfRun \/ RenderBookletHtmlRun

SpecEngines == EngineInit /\ [][EngineNext]_vars

---------------------------------------------------------------------------
(* Claims about the engines (SpecEngines) *)

\* C17: on one record, the print engine and the preview engine decide every
\* conditional section alike: Gloria, the entrance heading, the confession
\* text, the acclamation text, the postlude, the wreath banner, the second
\* reading and the children's-liturgy callout.
C17_EngineParity ==
  (printed # <<>> /\ previewed # <<>>) => printed[1] = previewed[1]

\* Both engines ran on a Lent record whose raw postlude override is true and
\* that has a second reading: the postlude and the reading are laid out
C17_Witness ==
  /\ printed # <<>> /\ previewed # <<>>
  /\ heap0.recs[1].liturgicalSeason = "lent"
  /\ heap0.sss # <<>>
  /\ heap0.sss[1].includePostlude = JsTrue
  /\ printed[1].postlude
  /\ printed[1].secondReading
  /\ printed[1].acclamation = "GOSPEL_ACCLAMATION_LENTEN"
  /\ ~previewed[1].gloria

====
